---------------------------- MODULE Spec2Model ----------------------------
(***************************************************************************)
(* A model of the JavaScript runtime that src/src/js.rs emits (Box,        *)
(* dropRegistry, NotifierRegistry, nativeFuture, nativeIter, nativeStream, *)
(* __notifier_callback), of the statements generate_instr emits for the    *)
(* marshaling instructions, of Abi::layout (src/src/abi.rs) and of         *)
(* WasmMultiValueShim; and of the front end: Interface::parse              *)
(* (src/src/parser.rs), Type::to_type and Interface::into_functions        *)
(* (src/src/abi.rs) and JsGenerator::generate.                             *)
(*                                                                         *)
(* The host is a single-threaded event loop: every action below is one     *)
(* host callback run to completion.  A method that calls other methods is  *)
(* modelled by threading a record of the whole host state ("s") through    *)
(* the operators that model the callees; a call yields                     *)
(*   [s |-> state after the call, err |-> "" or the thrown message,        *)
(*    ret |-> returned value].                                             *)
(***************************************************************************)
EXTENDS Integers, Sequences, FiniteSets, TLC

VARIABLES
    boxes,            \* Box id -> [ptr, dropped, moved, destructor]  (js.rs 326-333)
    dropRegistry,     \* Box ids registered with the FinalizationRegistry (js.rs 324)
    destructorCalls,  \* foreign pointer -> number of destructor calls it received
    reachable,        \* Box ids the host program still holds a reference to
    counter,          \* notifierRegistry.counter                    (js.rs 372)
    callbacks,        \* notifierRegistry.callbacks: slot -> closure  (js.rs 373)
    unregisterCalls,  \* slot -> number of unregisterNotifier calls it received
    futures,          \* object id -> the Promise nativeFuture returned
    streams,          \* object id -> the ReadableStream nativeStream returned
    timers,           \* the event loop's queue of setTimeout(..., 0) callbacks
    iters,            \* object id -> the generator nativeIter returned
    foreign,          \* object id -> the foreign side's state of that resource
    call,             \* one call of a generated function: its vars and outcome
    lastCall          \* outcome of the last host-level call (observation only)

boxVars == <<boxes, dropRegistry, destructorCalls>>
asyncVars ==
    <<counter, callbacks, unregisterCalls, futures, streams, timers, iters, foreign>>
vars ==
    <<boxes, dropRegistry, destructorCalls, reachable, counter, callbacks,
      unregisterCalls, futures, streams, timers, iters, foreign, call, lastCall>>

\* ------------------------------------------------------------------ bounds
NBox == 2

MaxPending == 1

MaxItems == 1

MaxTimers == 1

MaxLen == 2

MaxMsg == 2

BoxIds == 1..NBox
\* Raw foreign pointers handed to the host; distinct from the Box ids.
Ptrs == {10 * p : p \in 1..NBox}
\* Slots the registry may hand out in a run: two per Box at most.
MaxSlots == 2 * NBox

\* ------------------------------------------------------- calls and results
NoErr == ""

Return(s, v) == [s |-> s, err |-> NoErr, ret |-> v]

Throw(s, e) == [s |-> s, err |-> e, ret |-> 0]

\* No generated function is being run.
NoGenerated == [pc |-> "none"]

\* The host state handed to, and returned by, the operators below.
\* `invoked` and `polled` list the notifier closures run and the foreign poll
\* calls made during the current host callback.
Host ==
    [boxes |-> boxes, dropRegistry |-> dropRegistry,
     destructorCalls |-> destructorCalls,
     counter |-> counter, callbacks |-> callbacks,
     unregisterCalls |-> unregisterCalls,
     futures |-> futures, streams |-> streams, timers |-> timers,
     iters |-> iters,
     foreign |-> foreign,
     invoked |-> <<>>, polled |-> <<>>]

Commit(s) ==
    /\ boxes' = s.boxes
    /\ dropRegistry' = s.dropRegistry
    /\ destructorCalls' = s.destructorCalls
    /\ counter' = s.counter
    /\ callbacks' = s.callbacks
    /\ unregisterCalls' = s.unregisterCalls
    /\ futures' = s.futures
    /\ streams' = s.streams
    /\ timers' = s.timers
    /\ iters' = s.iters
    /\ foreign' = s.foreign
    /\ UNCHANGED call

\* --------------------------------------------------------------------- Box
\* The destructor closure `() => { api.drop(symbol, ptr); }` built by the
\* Lift* instructions: it captures the raw pointer and frees it.
destructor(s, ptr) ==
    [s EXCEPT !.destructorCalls[ptr] = @ + 1]

\* dropRegistry.register(this, destructor, this)
register(s, b) == [s EXCEPT !.dropRegistry = @ \cup {b}]

\* dropRegistry.unregister(this)
unregister(s, b) == [s EXCEPT !.dropRegistry = @ \ {b}]

\* new Box(ptr, destructor)
Box(s, b, ptr) ==
    register(
        [s EXCEPT !.boxes = b :> [ptr |-> ptr, dropped |-> FALSE,
                                  moved |-> FALSE, destructor |-> ptr] @@ @],
        b)

\* Mutant: borrow that forgets the test of `moved`.
borrow_ignoresMoved(s, b) ==
    IF s.boxes[b].dropped THEN Throw(s, "use after free")
    ELSE Return(s, s.boxes[b].ptr)

borrow(s, b) ==
    IF s.boxes[b].dropped THEN Throw(s, "use after free")
    ELSE IF s.boxes[b].moved THEN Throw(s, "use after move")
    ELSE Return(s, s.boxes[b].ptr)

\* Mutant: move that marks the Box moved before it tests `dropped`.
move_marksFirst(s, b) ==
    LET marked == [s EXCEPT !.boxes[b].moved = TRUE]
    IN  IF s.boxes[b].dropped THEN Throw(marked, "use after free")
        ELSE IF s.boxes[b].moved THEN Throw(marked, "can't move value twice")
        ELSE Return(unregister(marked, b), s.boxes[b].ptr)

move(s, b) ==
    IF s.boxes[b].dropped THEN Throw(s, "use after free")
    ELSE IF s.boxes[b].moved THEN Throw(s, "can't move value twice")
    ELSE Return(unregister([s EXCEPT !.boxes[b].moved = TRUE], b),
                s.boxes[b].ptr)

\* Mutant: drop that leaves the Box registered with the dropRegistry.
drop_keepsRegistration(s, b) ==
    IF s.boxes[b].dropped THEN Throw(s, "double free")
    ELSE IF s.boxes[b].moved THEN Throw(s, "can't drop moved value")
    ELSE Return(destructor([s EXCEPT !.boxes[b].dropped = TRUE],
                           s.boxes[b].destructor),
                0)

drop(s, b) ==
    IF s.boxes[b].dropped THEN Throw(s, "double free")
    ELSE IF s.boxes[b].moved THEN Throw(s, "can't drop moved value")
    ELSE Return(destructor(unregister([s EXCEPT !.boxes[b].dropped = TRUE], b),
                           s.boxes[b].destructor),
                0)

\* `new FinalizationRegistry(drop => drop())`: the cleanup callback of a
\* collected target calls the held value, and the registration is gone.
finalize(s, b) ==
    destructor(unregister(s, b), s.boxes[b].destructor)

\* ------------------------------------------------- Box driven by the host
Live(bx) == ~bx.dropped /\ ~bx.moved

Observe(op, b, r) ==
    [op |-> op, box |-> b, err |-> r.err, ret |-> r.ret, pre |-> boxes[b]]

NoCall ==
    [op |-> "none", box |-> 0, err |-> NoErr, ret |-> 0,
     pre |-> [ptr |-> 0, dropped |-> FALSE, moved |-> FALSE, destructor |-> 0]]

\* A Lift* instruction wraps a pointer, which no other Box wraps, in a Box.
Construct(b, ptr) ==
    /\ b \notin DOMAIN boxes
    /\ \A o \in DOMAIN boxes : boxes[o].ptr # ptr
    /\ Commit(Box(Host, b, ptr))
    /\ reachable' = reachable \cup {b}
    /\ lastCall' = NoCall

Borrow(b) ==
    /\ b \in reachable
    /\ LET r == borrow(Host, b) IN
        /\ Commit(r.s)
        /\ lastCall' = Observe("borrow", b, r)
    /\ UNCHANGED reachable

Move(b) ==
    /\ b \in reachable
    /\ LET r == move(Host, b) IN
        /\ Commit(r.s)
        /\ lastCall' = Observe("move", b, r)
    /\ UNCHANGED reachable

Drop(b) ==
    /\ b \in reachable
    /\ LET r == drop(Host, b) IN
        /\ Commit(r.s)
        /\ lastCall' = Observe("drop", b, r)
    /\ UNCHANGED reachable

\* The host program lets go of its last reference to the Box.
Unreachable(b) ==
    /\ b \in reachable
    /\ reachable' = reachable \ {b}
    /\ lastCall' = NoCall
    /\ UNCHANGED boxVars
    /\ UNCHANGED asyncVars
    /\ UNCHANGED call

\* The garbage collector reclaims an unreachable, still registered Box.
Finalize(b) ==
    /\ b \in DOMAIN boxes
    /\ b \notin reachable
    /\ b \in dropRegistry
    /\ Commit(finalize(Host, b))
    /\ lastCall' = [NoCall EXCEPT !.op = "finalizer", !.box = b, !.pre = boxes[b]]
    /\ UNCHANGED reachable

BoxInit ==
    /\ boxes = <<>>
    /\ dropRegistry = {}
    /\ destructorCalls = [p \in Ptrs |-> 0]
    /\ reachable = {}
    /\ counter = 0
    /\ callbacks = <<>>
    /\ unregisterCalls = <<>>
    /\ futures = <<>>
    /\ streams = <<>>
    /\ timers = <<>>
    /\ iters = <<>>
    /\ foreign = <<>>
    /\ call = NoGenerated
    /\ lastCall = NoCall

BoxNext ==
    \/ \E b \in BoxIds, ptr \in Ptrs : Construct(b, ptr)
    \/ \E b \in BoxIds : Borrow(b)
    \/ \E b \in BoxIds : Move(b)
    \/ \E b \in BoxIds : Drop(b)
    \/ \E b \in BoxIds : Unreachable(b)
    \/ \E b \in BoxIds : Finalize(b)

SpecBox == BoxInit /\ [][BoxNext]_vars

\* ------------------------------------------------------------- JS values
JsNull == [t |-> "null"]

JsUndefined == [t |-> "undefined"]

Num(n) == [t |-> "num", v |-> n]

\* A value thrown by the foreign call (HandleError's `throw`).
Failure(m) == [t |-> "error", msg |-> m]

\* `x == null` / `x != null`: loose equality, true of null and undefined only.
LooseNull(x) == x.t \in {"null", "undefined"}

\* -------------------------------------------------------- NotifierRegistry
\* Mutant: a registry that hands out the lowest slot without a callback.
reserveSlot_reuse(s) ==
    LET free == CHOOSE i \in 0..s.counter :
                    /\ i \notin DOMAIN s.callbacks
                    /\ \A j \in 0..(i - 1) : j \in DOMAIN s.callbacks
    IN  Return([s EXCEPT !.counter = @ + 1], free)

reserveSlot(s) ==
    Return([s EXCEPT !.counter = @ + 1], s.counter)

registerNotifier(s, idx, notifier) ==
    [s EXCEPT !.callbacks = idx :> notifier @@ @]

unregisterNotifier(s, idx) ==
    [s EXCEPT
        !.callbacks = [i \in DOMAIN @ \ {idx} |-> @[i]],
        !.unregisterCalls =
            idx :> ((IF idx \in DOMAIN @ THEN @[idx] ELSE 0) + 1) @@ @]

\* --------------------------------------------------------- the foreign side
\* The generated poll function of a future, api.__<fut>_future_poll(ptr, 0, idx):
\* pending (null) while the foreign future has pending polls left, then its
\* final outcome, a value or a thrown failure.  The foreign side keeps idx
\* to wake it later; slotLive records that every slot it was handed had a
\* callback registered when it was handed over.
futurePoll(s, f, ptr, idx) ==
    LET fs == s.foreign[f]
        seen == [s EXCEPT
                    !.polled = Append(@, [obj |-> f, ptr |-> ptr, slots |-> <<idx>>,
                                          registered |-> idx \in DOMAIN s.callbacks]),
                    !.foreign[f].polls = @ + 1,
                    !.foreign[f].slotLive = @ /\ idx \in DOMAIN s.callbacks]
    IN  IF fs.pendingLeft > 0
        THEN Return([seen EXCEPT !.foreign[f].pendingLeft = @ - 1], JsNull)
        ELSE IF fs.final.t = "error"
        THEN Throw(seen, fs.final.msg)
        ELSE Return(seen, fs.final)

\* The generated poll function of a stream,
\* api.__<stream>_stream_poll(ptr, 0, nextIdx, doneIdx): the next item if
\* one is ready, null otherwise.
streamPoll(s, st, ptr, nextIdx, doneIdx) ==
    LET fs == s.foreign[st]
        seen == [s EXCEPT
                    !.polled = Append(@, [obj |-> st, ptr |-> ptr,
                                          slots |-> <<nextIdx, doneIdx>>,
                                          registered |->
                                              {nextIdx, doneIdx} \subseteq DOMAIN s.callbacks]),
                    !.foreign[st].ready = FALSE,
                    !.foreign[st].slotLive =
                        @ /\ {nextIdx, doneIdx} \subseteq DOMAIN s.callbacks]
    IN  IF fs.ready /\ fs.items # <<>>
        THEN Return([seen EXCEPT !.foreign[st].items = Tail(@)], Head(fs.items))
        ELSE Return(seen, JsNull)

\* ------------------------------------------------------------ nativeFuture
\* The Promise's resolve and reject functions: the first call settles the
\* promise, later calls change nothing.
resolve(s, f, v) ==
    [s EXCEPT !.futures[f] =
        [@ EXCEPT !.resolveCalls = @ + 1,
                  !.state = IF s.futures[f].state = "pending" THEN "fulfilled" ELSE @,
                  !.value = IF s.futures[f].state = "pending" THEN v ELSE @]]

reject(s, f, e) ==
    [s EXCEPT !.futures[f] =
        [@ EXCEPT !.rejectCalls = @ + 1,
                  !.state = IF s.futures[f].state = "pending" THEN "rejected" ELSE @,
                  !.value = IF s.futures[f].state = "pending" THEN Failure(e) ELSE @]]

\* Mutant: poll whose catch block rejects and throws the error again.
poll_rethrows(s, f, idx) ==
    LET box == s.futures[f].box
        b == borrow(s, box)
        p == IF b.err = NoErr THEN futurePoll(b.s, f, b.ret, idx) ELSE b
    IN  IF p.err = NoErr /\ LooseNull(p.ret)
        THEN Return(p.s, JsUndefined)
        ELSE IF p.err = NoErr
        THEN drop(unregisterNotifier(resolve(p.s, f, p.ret), idx), box)
        ELSE Throw(reject(p.s, f, p.err), p.err)

\* Mutant: poll without the early return on a pending result.
poll_withoutPendingReturn(s, f, idx) ==
    LET box == s.futures[f].box
        b == borrow(s, box)
        p == IF b.err = NoErr THEN futurePoll(b.s, f, b.ret, idx) ELSE b
        settled == IF p.err = NoErr
                   THEN resolve(p.s, f, p.ret)
                   ELSE reject(p.s, f, p.err)
    IN  drop(unregisterNotifier(settled, idx), box)

\* const poll = (resolve, reject, idx) => { ... }   (js.rs 394-406)
poll(s, f, idx) ==
    LET box == s.futures[f].box
        b == borrow(s, box)
        \* the body of `try` up to the test of ret
        p == IF b.err = NoErr THEN futurePoll(b.s, f, b.ret, idx) ELSE b
    IN  IF p.err = NoErr /\ LooseNull(p.ret)
        THEN Return(p.s, JsUndefined)
        ELSE LET settled == IF p.err = NoErr
                            THEN resolve(p.s, f, p.ret)
                            ELSE reject(p.s, f, p.err)
             IN  drop(unregisterNotifier(settled, idx), box)

\* The closure `() => poll(resolve, reject, idx)` (js.rs 409).
futureNotifier(f, idx) == [kind |-> "future", obj |-> f, idx |-> idx]

\* Mutant: nativeFuture that polls before it registers the callback.
nativeFuture_pollsFirst(s, f, box) ==
    LET r == reserveSlot(s)
        idx == r.ret
        promise == [box |-> box, idx |-> idx, state |-> "pending",
                    value |-> JsUndefined, resolveCalls |-> 0, rejectCalls |-> 0]
        made == [r.s EXCEPT !.futures = f :> promise @@ @]
        p == poll(made, f, idx)
    IN  [p EXCEPT !.s = registerNotifier(p.s, idx, futureNotifier(f, idx))]

\* nativeFuture(box, nativePoll): the Promise executor runs at once
\* (js.rs 407-412).
nativeFuture(s, f, box) ==
    LET r == reserveSlot(s)
        idx == r.ret
        promise == [box |-> box, idx |-> idx, state |-> "pending",
                    value |-> JsUndefined, resolveCalls |-> 0, rejectCalls |-> 0]
        made == [r.s EXCEPT !.futures = f :> promise @@ @]
    IN  poll(registerNotifier(made, idx, futureNotifier(f, idx)), f, idx)

\* ------------------------------------------------------------ nativeStream
\* controller.enqueue(x) and controller.close(): both throw a TypeError on a
\* stream that is already closed.
enqueue(s, st, x) ==
    IF s.streams[st].closed
    THEN Throw(s, "TypeError: stream is closed")
    ELSE Return([s EXCEPT !.streams[st].queue = Append(@, x)], JsUndefined)

close(s, st) ==
    IF s.streams[st].closed
    THEN Throw(s, "TypeError: stream is closed")
    ELSE Return([s EXCEPT !.streams[st].closed = TRUE], JsUndefined)

\* const poll = (next, nextIdx, doneIdx) => { ... }   (js.rs 428-433)
pollStream(s, st, nextIdx, doneIdx) ==
    LET b == borrow(s, s.streams[st].box)
        p == IF b.err = NoErr THEN streamPoll(b.s, st, b.ret, nextIdx, doneIdx) ELSE b
    IN  IF p.err # NoErr THEN p
        ELSE IF ~LooseNull(p.ret) THEN enqueue(p.s, st, p.ret)
        ELSE Return(p.s, JsUndefined)

\* const nextNotifier = () => setTimeout(() => poll(...), 0)   (js.rs 438-440)
nextNotifier(s, st, nextIdx, doneIdx) ==
    Return([s EXCEPT !.timers =
                Append(@, [obj |-> st, nextIdx |-> nextIdx, doneIdx |-> doneIdx])],
           JsUndefined)

\* Mutant: doneNotifier that leaves the next-ready callback registered.
doneNotifier_keepsNext(s, st, nextIdx, doneIdx) ==
    LET c == close(unregisterNotifier(s, doneIdx), st)
    IN  IF c.err # NoErr THEN c ELSE drop(c.s, s.streams[st].box)

\* const doneNotifier = () => { ... }   (js.rs 441-446)
doneNotifier(s, st, nextIdx, doneIdx) ==
    LET c == close(unregisterNotifier(unregisterNotifier(s, nextIdx), doneIdx), st)
    IN  IF c.err # NoErr THEN c ELSE drop(c.s, s.streams[st].box)

\* new ReadableStream({ start(controller) { ... } })   (js.rs 434-451)
nativeStream(s, st, box) ==
    LET r1 == reserveSlot(s)
        nextIdx == r1.ret
        r2 == reserveSlot(r1.s)
        doneIdx == r2.ret
        stream == [box |-> box, nextIdx |-> nextIdx, doneIdx |-> doneIdx,
                   closed |-> FALSE, queue |-> <<>>]
        made == [r2.s EXCEPT !.streams = st :> stream @@ @]
        reg1 == registerNotifier(made, nextIdx,
                    [kind |-> "next", obj |-> st, idx |-> nextIdx, other |-> doneIdx])
        reg2 == registerNotifier(reg1, doneIdx,
                    [kind |-> "done", obj |-> st, idx |-> doneIdx, other |-> nextIdx])
    IN  nextNotifier(reg2, st, nextIdx, doneIdx)

\* -------------------------------------------------------------- nativeIter
\* The generated next function of an iterator, api.__<iter>_iter_next(ptr):
\* the next element, or null once the foreign iterator is exhausted.  The
\* foreign side notes what it was called with.
iterNext(s, it, ptr) ==
    LET fs == s.foreign[it]
        seen == [s EXCEPT
                    !.foreign[it].calls = @ + 1,
                    !.foreign[it].borrowedLive =
                        @ /\ Live(s.boxes[s.iters[it].box])
                          /\ ptr = s.boxes[s.iters[it].box].ptr]
    IN  IF fs.items = <<>>
        THEN Return([seen EXCEPT !.foreign[it].ended = TRUE], JsNull)
        ELSE Return([seen EXCEPT !.foreign[it].items = Tail(@)], Head(fs.items))

\* The generator has run to its end, by return or by an exception.
completed(s, it) == [s EXCEPT !.iters[it].gen = "completed"]

\* Mutant: a generator that ends at the sentinel without dropping the Box.
resume_withoutDrop(s, it) ==
    LET box == s.iters[it].box
        b == borrow(s, box)
        el == IF b.err = NoErr THEN iterNext(b.s, it, b.ret) ELSE b
    IN  IF el.err # NoErr THEN [el EXCEPT !.s = completed(el.s, it)]
        ELSE IF el.ret = JsNull
        THEN Return(completed(el.s, it), JsUndefined)
        ELSE Return([el.s EXCEPT !.iters[it].gen = "suspendedYield",
                                 !.iters[it].yielded = Append(@, el.ret)],
                    el.ret)

\* function* nativeIter(box, nxt) (js.rs 415-425), from one resumption to the
\* next `yield` or to the end: one turn of the loop, and after `break` the
\* drop.
resume(s, it) ==
    LET box == s.iters[it].box
        b == borrow(s, box)
        el == IF b.err = NoErr THEN iterNext(b.s, it, b.ret) ELSE b
    IN  IF el.err # NoErr THEN [el EXCEPT !.s = completed(el.s, it)]
        ELSE IF el.ret = JsNull
        THEN LET d == drop(el.s, box) IN [d EXCEPT !.s = completed(d.s, it)]
        ELSE Return([el.s EXCEPT !.iters[it].gen = "suspendedYield",
                                 !.iters[it].yielded = Append(@, el.ret)],
                    el.ret)

\* generator.next(): a generator that has ended runs no code.
next(s, it) ==
    IF s.iters[it].gen = "completed" THEN Return(s, JsUndefined) ELSE resume(s, it)

\* ------------------------------------------------------ __notifier_callback
\* Running a registered closure.
invoke(s, cb) ==
    LET t == [s EXCEPT !.invoked = Append(@, cb)]
    IN  CASE cb.kind = "future" -> poll(t, cb.obj, cb.idx)
          [] cb.kind = "next" -> nextNotifier(t, cb.obj, cb.idx, cb.other)
          [] cb.kind = "done" -> doneNotifier(t, cb.obj, cb.other, cb.idx)

\* Mutant: an entry point that runs the callback of the lowest registered slot.
notifier_callback_lowest(s, idx) ==
    IF idx \in DOMAIN s.callbacks
    THEN invoke(s, s.callbacks[CHOOSE i \in DOMAIN s.callbacks :
                                  \A j \in DOMAIN s.callbacks : i <= j])
    ELSE Throw(s, "TypeError: notifierRegistry.callbacks[idx] is not a function")

\* Mutant: an entry point that ignores a slot without a callback.
notifier_callback_silent(s, idx) ==
    IF idx \in DOMAIN s.callbacks
    THEN invoke(s, s.callbacks[idx])
    ELSE Return(s, JsUndefined)

\* (idx) => notifierRegistry.callbacks[idx]()   (js.rs 290, 297, 306): calling
\* the undefined value of an absent key throws a TypeError.
notifier_callback(s, idx) ==
    IF idx \in DOMAIN s.callbacks
    THEN invoke(s, s.callbacks[idx])
    ELSE Throw(s, "TypeError: notifierRegistry.callbacks[idx] is not a function")

\* --------------------------------------------- futures and streams at work
\* The pointer the foreign side returns for resource o.
PtrOf(o) == 10 * o

\* What the foreign side may make of a future: its final outcome.
Finals == {Num(42), Failure("oops!")}

\* The items a foreign stream of n items yields.
Items(n) == [i \in 1..n |-> Num(i)]

\* Resources are numbered in the order the foreign side hands them out.
NextObject == Cardinality(DOMAIN foreign) + 1

AsyncCall(op, r) == [op |-> op, err |-> r.err]

\* Instr::LiftFuture (js.rs 688-694): a call returned a future whose foreign
\* poll is pending k times and then yields `final`.
CreateFuture(f, k, final) ==
    /\ f = NextObject
    /\ counter + 1 <= MaxSlots
    /\ LET born == [Host EXCEPT !.foreign =
                        f :> [kind |-> "future", k |-> k, pendingLeft |-> k,
                              final |-> final, polls |-> 0,
                              slotLive |-> TRUE] @@ @]
           r == nativeFuture(Box(born, f, PtrOf(f)), f, f)
       IN  /\ Commit(r.s)
           /\ lastCall' = AsyncCall("nativeFuture", r)
    /\ UNCHANGED reachable

\* Instr::LiftStream (js.rs 695-701): a call returned a stream of n items.
CreateStream(st, n) ==
    /\ st = NextObject
    /\ counter + 2 <= MaxSlots
    /\ LET born == [Host EXCEPT !.foreign =
                        st :> [kind |-> "stream", items |-> Items(n),
                               ready |-> FALSE, slotLive |-> TRUE] @@ @]
           r == nativeStream(Box(born, st, PtrOf(st)), st, st)
       IN  /\ Commit(r.s)
           /\ lastCall' = AsyncCall("nativeStream", r)
    /\ UNCHANGED reachable

\* The foreign side calls __notifier_callback(idx) with a slot the registry
\* has handed out, or with the first one it has not.
Wake(idx) ==
    /\ idx <= counter
    /\ idx \in DOMAIN callbacks /\ callbacks[idx].kind = "next"
        => Len(timers) < MaxTimers
    /\ LET r == notifier_callback(Host, idx)
       IN  /\ Commit(r.s)
           /\ lastCall' = AsyncCall("wake", r)
    /\ UNCHANGED reachable

\* The event loop runs the oldest setTimeout callback; the foreign stream has
\* an item ready for it or not.
TimerFires(ready) ==
    /\ timers # <<>>
    /\ LET t == Head(timers)
           r == pollStream([Host EXCEPT !.timers = Tail(@),
                                        !.foreign[t.obj].ready = ready],
                           t.obj, t.nextIdx, t.doneIdx)
       IN  /\ Commit(r.s)
           /\ lastCall' = AsyncCall("timer", r)
    /\ UNCHANGED reachable

AsyncInit ==
    /\ boxes = <<>>
    /\ dropRegistry = {}
    /\ destructorCalls = [p \in Ptrs |-> 0]
    /\ reachable = {}
    /\ counter = 0
    /\ callbacks = <<>>
    /\ unregisterCalls = <<>>
    /\ futures = <<>>
    /\ streams = <<>>
    /\ timers = <<>>
    /\ iters = <<>>
    /\ foreign = <<>>
    /\ call = NoGenerated
    /\ lastCall = NoCall

AsyncNext ==
    \/ \E f \in BoxIds, k \in 0..MaxPending, final \in Finals : CreateFuture(f, k, final)
    \/ \E st \in BoxIds, n \in 0..MaxItems : CreateStream(st, n)
    \/ \E idx \in 0..MaxSlots : Wake(idx)
    \/ \E ready \in BOOLEAN : TimerFires(ready)

Spec == AsyncInit /\ [][AsyncNext]_vars

\* ------------------------------------------------- futures driven to their end
MaxPolls == 2

\* The foreign side wakes the slot of a future whose last poll it answered
\* with pending: the waker it kept from that poll calls
\* __notifier_callback(idx)   (js.rs 290, 409).
ForeignWake(f) ==
    /\ f \in DOMAIN futures
    /\ foreign[f].polls <= foreign[f].k
    /\ Wake(futures[f].idx)

\* Futures only: each is pending up to MaxPolls times and then ready with a
\* value, with a failure, or with a value that Instr::HandleNull
\* (js.rs 655-659) lifts to null; the foreign side wakes a slot only after
\* a pending poll, and does so in the end.
BridgeNext ==
    \/ \E f \in BoxIds, k \in 0..MaxPolls, final \in Finals \cup {JsNull} :
            CreateFuture(f, k, final)
    \/ \E f \in BoxIds : ForeignWake(f)

SpecBridge ==
    AsyncInit /\ [][BridgeNext]_vars /\ \A f \in BoxIds : WF_vars(ForeignWake(f))

\* ------------------------------------------------------ iterators at work
\* The elements a foreign iterator may hold; 0 is an element like any other.
Elements == {Num(0), Num(7)}

ElementSeqs == UNION {[1..n -> Elements] : n \in 0..MaxLen}

\* Instr::LiftIter (js.rs 681-687): a call returned an iterator over `items`;
\* the generator object is made, its body has not started.  Iterators share
\* nothing, so one of them is driven.
CreateIter(it, items) ==
    /\ it = NextObject
    /\ iters = <<>>
    /\ LET born == [Host EXCEPT
                        !.foreign = it :> [kind |-> "iter", all |-> items,
                                           items |-> items, calls |-> 0,
                                           ended |-> FALSE,
                                           borrowedLive |-> TRUE] @@ @,
                        !.iters = it :> [box |-> it, gen |-> "suspendedStart",
                                         yielded |-> <<>>] @@ @]
       IN  Commit(Box(born, it, PtrOf(it)))
    /\ reachable' = reachable \cup {it}
    /\ lastCall' = [op |-> "nativeIter", err |-> NoErr]

\* The host pulls the next element.
IterNext(it) ==
    /\ it \in reachable
    /\ LET r == next(Host, it) IN
        /\ Commit(r.s)
        /\ lastCall' = AsyncCall("next", r)
    /\ UNCHANGED reachable

\* The host leaves a for-of loop early: generator.return() ends the generator
\* where it is suspended, and the statements after its loop do not run.
IterReturn(it) ==
    /\ it \in reachable
    /\ iters[it].gen # "completed"
    /\ Commit(completed(Host, it))
    /\ lastCall' = [op |-> "return", err |-> NoErr]
    /\ UNCHANGED reachable

IterNextStep ==
    \/ \E it \in BoxIds, items \in ElementSeqs : CreateIter(it, items)
    \/ \E it \in DOMAIN iters : IterNext(it)
    \/ \E it \in DOMAIN iters : IterReturn(it)
    \/ \E it \in DOMAIN iters : Unreachable(it)
    \/ \E it \in DOMAIN iters : Finalize(it)

SpecIter == AsyncInit /\ [][IterNextStep]_vars

\* ------------------------------------------------------ generated functions
\* Foreign linear memory is a function from addresses to bytes.
Addrs == 0..MaxMsg

\* The bytes of "!", "o" and of the two-byte UTF-8 form of U+00E9.
Bytes == {33, 111, 195, 169}

\* new Uint8Array(memory.buffer, ptr, len)
Uint8Array(memory, ptr, len) == [i \in 1..len |-> memory[ptr + i - 1]]

\* A host string is the sequence of its UTF-16 code units.
\* The scalar values of a host string: a surrogate pair is one scalar value,
\* a surrogate outside a pair is replaced by U+FFFD.
RECURSIVE scalars(_)
scalars(str) ==
    IF str = <<>> THEN <<>>
    ELSE LET u == Head(str)
             IsHigh(x) == x >= 55296 /\ x <= 56319
             IsLow(x) == x >= 56320 /\ x <= 57343
         IN
        IF IsHigh(u) /\ Len(str) >= 2 /\ IsLow(str[2])
        THEN <<65536 + (u - 55296) * 1024 + (str[2] - 56320)>>
                \o scalars(Tail(Tail(str)))
        ELSE IF IsHigh(u) \/ IsLow(u)
        THEN <<65533>> \o scalars(Tail(str))
        ELSE <<u>> \o scalars(Tail(str))

\* The UTF-8 form of one scalar value.
utf8(cp) ==
    IF cp < 128 THEN <<cp>>
    ELSE IF cp < 2048 THEN <<192 + (cp \div 64), 128 + (cp % 64)>>
    ELSE IF cp < 65536
    THEN <<224 + (cp \div 4096), 128 + ((cp \div 64) % 64), 128 + (cp % 64)>>
    ELSE <<240 + (cp \div 262144), 128 + ((cp \div 4096) % 64),
           128 + ((cp \div 64) % 64), 128 + (cp % 64)>>

RECURSIVE utf8_all(_)
utf8_all(cps) ==
    IF cps = <<>> THEN <<>> ELSE utf8(Head(cps)) \o utf8_all(Tail(cps))

\* new TextEncoder().encode(str)
encode(str) == utf8_all(scalars(str))

\* The number of continuation bytes lead byte b announces, 0 when b is not a
\* lead byte of a multi-byte sequence.
Needed(b) ==
    IF b >= 194 /\ b <= 223 THEN 1
    ELSE IF b >= 224 /\ b <= 239 THEN 2
    ELSE IF b >= 240 /\ b <= 244 THEN 3
    ELSE 0

\* How many of the continuation bytes lead byte Head(bytes) needs are there;
\* the first of them has a narrower range after the lead bytes E0, ED, F0
\* and F4.
RECURSIVE Continued(_, _)
Continued(bytes, k) ==
    LET b == Head(bytes)
        FirstLow == IF b = 224 THEN 160 ELSE IF b = 240 THEN 144 ELSE 128
        FirstHigh == IF b = 237 THEN 159 ELSE IF b = 244 THEN 143 ELSE 191
        lo == IF k = 0 THEN FirstLow ELSE 128
        hi == IF k = 0 THEN FirstHigh ELSE 191
    IN  IF /\ k < Needed(b)
           /\ Len(bytes) >= k + 2
           /\ bytes[k + 2] >= lo /\ bytes[k + 2] <= hi
        THEN Continued(bytes, k + 1)
        ELSE k

\* UTF-8 to code units; the bytes of a sequence that is not well formed
\* decode to one U+FFFD and decoding resumes at the byte that broke it.
RECURSIVE utf8_decode(_)
utf8_decode(bytes) ==
    IF bytes = <<>> THEN <<>>
    ELSE LET b == Head(bytes)
             n == Needed(b)
             k == Continued(bytes, 0)
             \* the scalar value of the well-formed sequence that starts bytes
             Scalar ==
                CASE n = 1 -> (b - 192) * 64 + (bytes[2] - 128)
                  [] n = 2 -> (b - 224) * 4096 + (bytes[2] - 128) * 64
                                + (bytes[3] - 128)
                  [] n = 3 -> (b - 240) * 262144 + (bytes[2] - 128) * 4096
                                + (bytes[3] - 128) * 64 + (bytes[4] - 128)
             \* the code units of a scalar value
             units(cp) ==
                IF cp < 65536 THEN <<cp>>
                ELSE <<55296 + ((cp - 65536) \div 1024),
                       56320 + ((cp - 65536) % 1024)>>
         IN  IF b < 128 THEN <<b>> \o utf8_decode(Tail(bytes))
             ELSE IF n > 0 /\ k = n
             THEN units(Scalar)
                    \o utf8_decode(SubSeq(bytes, n + 2, Len(bytes)))
             ELSE <<65533>> \o utf8_decode(SubSeq(bytes, k + 2, Len(bytes)))

\* new TextDecoder().decode(bytes): the decoder is built with no options, so
\* a byte order mark that starts the input is dropped.
decode(bytes) ==
    IF Len(bytes) >= 3 /\ SubSeq(bytes, 1, 3) = <<239, 187, 191>>
    THEN utf8_decode(SubSeq(bytes, 4, Len(bytes)))
    ELSE utf8_decode(bytes)

\* api.deallocate(ptr, size, align)   (js.rs 467-469)
deallocate(c, ptr, size, align) ==
    [c EXCEPT !.deallocs = Append(@, [ptr |-> ptr, size |-> size, align |-> align])]

\* Mutant: HandleError that takes 1 for the failure discriminant.
HandleError_failsOnOne(c) ==
    IF c.var = 1
    THEN LET msg == decode(Uint8Array(c.memory, c.ptr, c.len))
             freed == IF c.len > 0 THEN deallocate(c, c.ptr, c.cap, 1) ELSE c
         IN  [freed EXCEPT !.pc = "thrown", !.thrown = msg]
    ELSE [c EXCEPT !.pc = "lift"]

\* Mutant: HandleError that frees the message's length instead of the
\* capacity the foreign side returned with it.
HandleError_freesLength(c) ==
    IF c.var = 0
    THEN LET msg == decode(Uint8Array(c.memory, c.ptr, c.len))
             freed == IF c.len > 0 THEN deallocate(c, c.ptr, c.len, 1) ELSE c
         IN  [freed EXCEPT !.pc = "thrown", !.thrown = msg]
    ELSE [c EXCEPT !.pc = "lift"]

\* Instr::HandleError(var, ptr, len, cap)   (js.rs 669-680)
HandleError(c) ==
    IF c.var = 0
    THEN LET msg == decode(Uint8Array(c.memory, c.ptr, c.len))
             freed == IF c.len > 0 THEN deallocate(c, c.ptr, c.cap, 1) ELSE c
         IN  [freed EXCEPT !.pc = "thrown", !.thrown = msg]
    ELSE [c EXCEPT !.pc = "lift"]

\* Instr::LiftString(ptr, len, out)   (js.rs 620-625)
LiftString(c) ==
    [c EXCEPT !.out = decode(Uint8Array(c.memory, c.ptr, c.len))]

\* Mutant: Deallocate without the test of the length.
Deallocate_unguarded(c, size, align) ==
    deallocate(c, c.ptr, c.len * size, align)

\* Instr::Deallocate(ptr, len, size, align)   (js.rs 605-609)
Deallocate(c, size, align) ==
    IF c.len > 0 THEN deallocate(c, c.ptr, c.len * size, align) ELSE c

\* Instr::ReturnValue(ret)   (js.rs 653)
ReturnValue(c) == [c EXCEPT !.pc = "returned", !.returned = c.out]

\* The foreign export of a function f() -> Result<string> has returned and
\* Instr::BindRets has bound its slots: the discriminant, and the pointer,
\* length and capacity of the message or of the string.
Returned(var, ptr, len, cap, memory) ==
    [pc |-> "bound", var |-> var, ptr |-> ptr, len |-> len, cap |-> cap,
     memory |-> memory, deallocs |-> <<>>, thrown |-> <<>>, out |-> <<>>,
     returned |-> <<>>]

RunHandleError ==
    /\ call.pc = "bound"
    /\ call' = HandleError(call)
    /\ UNCHANGED <<boxVars, reachable, asyncVars, lastCall>>

\* The lift of the success value and the return.
RunLiftAndReturn ==
    /\ call.pc = "lift"
    /\ call' = ReturnValue(Deallocate(LiftString(call), 1, 1))
    /\ UNCHANGED <<boxVars, reachable, asyncVars, lastCall>>

GenInit ==
    /\ boxes = <<>>
    /\ dropRegistry = {}
    /\ destructorCalls = [p \in Ptrs |-> 0]
    /\ reachable = {}
    /\ counter = 0
    /\ callbacks = <<>>
    /\ unregisterCalls = <<>>
    /\ futures = <<>>
    /\ streams = <<>>
    /\ timers = <<>>
    /\ iters = <<>>
    /\ foreign = <<>>
    /\ lastCall = NoCall
    /\ \E var \in {0, 1}, ptr \in Addrs, len \in 0..MaxMsg, extra \in {0, 1},
          memory \in [Addrs -> Bytes] :
            /\ ptr + len <= MaxMsg + 1
            /\ call = Returned(var, ptr, len, len + extra, memory)

GenNext ==
    \/ RunHandleError
    \/ RunLiftAndReturn

SpecGen == GenInit /\ [][GenNext]_vars

\* ------------------------------------------------------------ Abi::layout
\* enum PrimType   (abi.rs 84-99)
PrimType ==
    {"U8", "U16", "U32", "U64", "Usize", "I8", "I16", "I32", "I64", "Isize",
     "Bool", "F32", "F64"}

\* enum Abi { Native(u8), Wasm(u8) }   (abi.rs 3-7), with the pointer widths
\* Abi::native() (abi.rs 10-15) can return.
Abi ==
    {[kind |-> k, ptr_width |-> w] : k \in {"Native", "Wasm"}, w \in {32, 64}}

\* Abi::ptr_width   (abi.rs 17-22)
ptr_width(self) == self.ptr_width

\* Mutant: a layout that does not pad for the Wasm target.
layout_unpadded(self, ty) ==
    LET size ==
            CASE ty \in {"U8", "I8", "Bool"} -> 1
              [] ty \in {"U16", "I16"} -> 2
              [] ty \in {"U32", "I32", "F32"} -> 4
              [] ty \in {"U64", "I64", "F64"} -> 8
              [] ty \in {"Usize", "Isize"} -> ptr_width(self) \div 4
    IN  <<size, size>>

\* Abi::layout   (abi.rs 25-38)
layout(self, ty) ==
    LET size ==
            CASE ty \in {"U8", "I8", "Bool"} -> 1
              [] ty \in {"U16", "I16"} -> 2
              [] ty \in {"U32", "I32", "F32"} -> 4
              [] ty \in {"U64", "I64", "F64"} -> 8
              [] ty \in {"Usize", "Isize"} -> ptr_width(self) \div 4
        max(a, b) == IF a >= b THEN a ELSE b
        padded ==
            CASE self.kind = "Native" -> size
              [] self.kind = "Wasm" -> max(4, size)
    IN  <<padded, padded>>

\* One call of Abi::layout.
RunLayout ==
    /\ call.pc = "layout"
    /\ call' = [call EXCEPT !.pc = "laid out", !.out = layout(call.self, call.ty)]
    /\ UNCHANGED <<boxVars, reachable, asyncVars, lastCall>>

LayoutInit ==
    /\ boxes = <<>>
    /\ dropRegistry = {}
    /\ destructorCalls = [p \in Ptrs |-> 0]
    /\ reachable = {}
    /\ counter = 0
    /\ callbacks = <<>>
    /\ unregisterCalls = <<>>
    /\ futures = <<>>
    /\ streams = <<>>
    /\ timers = <<>>
    /\ iters = <<>>
    /\ foreign = <<>>
    /\ lastCall = NoCall
    /\ \E self \in Abi, ty \in PrimType :
        call = [pc |-> "layout", self |-> self, ty |-> ty, out |-> <<>>]

LayoutNext == RunLayout

SpecLayout == LayoutInit /\ [][LayoutNext]_vars

\* ---------------------------------------------------- strings and vectors
\* The element types of the vectors modelled, each with the typed array
\* generate_array (js.rs 717-730) views it through.
NumType == {"U8", "I8", "U16", "I16"}

\* BYTES_PER_ELEMENT of the typed array of ty.
BytesPerElement(ty) == IF ty \in {"U8", "I8"} THEN 1 ELSE 2

\* new <TypedArray>(memory.buffer, ptr, len), read element by element: the
\* bytes of an element, least significant first, as a number of ty.
TypedArray(ty, memory, ptr, len) ==
    LET n == BytesPerElement(ty)
        LoadElement(bytes) ==
            LET u == IF n = 1 THEN bytes[1] ELSE bytes[1] + 256 * bytes[2]
            IN  IF ty \in {"I8", "I16"} /\ u >= (256 ^ n) \div 2
                THEN u - (256 ^ n) ELSE u
    IN  [i \in 1..len |->
            LoadElement([k \in 1..n |-> memory[ptr + (i - 1) * n + (k - 1)]])]

\* <TypedArray>.set(values, 0) on the view of len elements at ptr: every
\* element is stored modulo 2^(8n), least significant byte first.
set(ty, memory, ptr, values) ==
    LET n == BytesPerElement(ty)
        StoreElement(v, m) ==
            [k \in 1..m |-> ((v % (256 ^ m)) \div (256 ^ (k - 1))) % 256]
    IN
    [a \in DOMAIN memory |->
        IF a >= ptr /\ a < ptr + Len(values) * n
        THEN StoreElement(values[((a - ptr) \div n) + 1], n)[((a - ptr) % n) + 1]
        ELSE memory[a]]

\* The foreign memory of a call that lowers and lifts one value.
Heap == 0..(8 + 4 * MaxLen)

\* The pointers the foreign export allocate(size, align) may return: aligned
\* and not null.
allocate(size, align) == {align * k : k \in 1..2}

\* Instr::LowerString(in, ptr, len, cap, size, align)   (js.rs 610-619);
\* ptr is what api.allocate(len * size, align) returned.
LowerString(c, ptr) ==
    LET bytes == encode(c.in)
        len == Len(bytes)
    IN  [c EXCEPT !.len = len, !.ptr = ptr, !.cap = len,
                  !.allocs = Append(@, [size |-> len * c.size, align |-> c.align]),
                  !.memory = set("U8", @, ptr, bytes),
                  !.pc = "lowered"]

\* Instr::LowerVec(in, ptr, len, cap, ty, size, align)   (js.rs 626-634)
LowerVec(c, ptr) ==
    LET len == Len(c.in)
    IN  [c EXCEPT !.len = len, !.ptr = ptr, !.cap = len,
                  !.allocs = Append(@, [size |-> len * c.size, align |-> c.align]),
                  !.memory = set(c.ty, @, ptr, c.in),
                  !.pc = "lowered"]

\* Instr::LiftVec(ptr, len, out, ty)   (js.rs 635-640)
LiftVec(c) == [c EXCEPT !.out = TypedArray(c.ty, c.memory, c.ptr, c.len)]

\* The values of a vector of ty the model draws elements from: both ends of
\* the range and one value whose bytes differ.
ElementsOf(ty) ==
    CASE ty = "U8" -> {0, 7, 255}
      [] ty = "I8" -> {-128, -1, 127}
      [] ty = "U16" -> {0, 258, 65535}
      [] ty = "I16" -> {-32768, -1, 258}

\* Code units of host strings: "a", U+00E9, U+20AC, the byte order mark
\* U+FEFF, and the surrogates of U+1F600.
Units == {97, 233, 8364, 65279, 55357, 56832}

SeqsUpTo(S, n) == UNION {[1..m -> S] : m \in 0..n}

\* A generated function was called with one string or vector argument:
\* Instr::DefineArgs (js.rs 650-652) has set ptr, len and cap to 0.
Called(ty, in, size, align) ==
    [pc |-> "arg", ty |-> ty, in |-> in, size |-> size, align |-> align,
     ptr |-> 0, len |-> 0, cap |-> 0, memory |-> [a \in Heap |-> 170],
     allocs |-> <<>>, deallocs |-> <<>>, out |-> <<>>, returned |-> <<>>]

RunLower ==
    /\ call.pc = "arg"
    /\ \E ptr \in allocate(Len(call.in) * call.size, call.align) :
        call' = IF call.ty = "String" THEN LowerString(call, ptr)
                ELSE LowerVec(call, ptr)
    /\ UNCHANGED <<boxVars, reachable, asyncVars, lastCall>>

\* The foreign function hands the buffer back as it got it; the lift of the
\* value returned.
RunLift ==
    /\ call.pc = "lowered"
    /\ call' = [(IF call.ty = "String" THEN LiftString(call) ELSE LiftVec(call))
                    EXCEPT !.pc = "lifted"]
    /\ UNCHANGED <<boxVars, reachable, asyncVars, lastCall>>

RunDeallocate ==
    /\ call.pc = "lifted"
    /\ call' = ReturnValue(Deallocate(call, call.size, call.align))
    /\ UNCHANGED <<boxVars, reachable, asyncVars, lastCall>>

VecInit ==
    /\ boxes = <<>>
    /\ dropRegistry = {}
    /\ destructorCalls = [p \in Ptrs |-> 0]
    /\ reachable = {}
    /\ counter = 0
    /\ callbacks = <<>>
    /\ unregisterCalls = <<>>
    /\ futures = <<>>
    /\ streams = <<>>
    /\ timers = <<>>
    /\ iters = <<>>
    /\ foreign = <<>>
    /\ lastCall = NoCall
    /\ \E self \in Abi :
        \/ \E in \in SeqsUpTo(Units, MaxLen) :
            call = Called("String", in, layout(self, "U8")[1], layout(self, "U8")[2])
        \/ \E ty \in NumType : \E in \in SeqsUpTo(ElementsOf(ty), MaxLen) :
            call = Called(ty, in, layout(self, ty)[1], layout(self, ty)[2])

VecNext ==
    \/ RunLower
    \/ RunLift
    \/ RunDeallocate

SpecVec == VecInit /\ [][VecNext]_vars

\* ----------------------------------------------------- 64-bit integers
\* A host integer (a BigInt, or a Number holding an integer) is its sign and
\* the 8 bytes of its magnitude, least significant first.
Zeros(n) == [i \in 1..n |-> 0]

\* The two's complement negation of a byte pattern: every byte complemented,
\* then `carry` added at the least significant end.
RECURSIVE Negate(_, _)
Negate(bytes, carry) ==
    IF bytes = <<>> THEN <<>>
    ELSE LET s == (255 - Head(bytes)) + carry
         IN  <<s % 256>> \o Negate(Tail(bytes), s \div 256)

\* What a typed array of n-byte integers stores for x: the n low bytes of
\* its two's complement pattern.
Stored(x, n) ==
    IF x.neg THEN Negate(SubSeq(x.mag, 1, n), 1) ELSE SubSeq(x.mag, 1, n)

\* What an unsigned typed array (Uint32Array, BigUint64Array) reads.
LoadUnsigned(bytes) == [neg |-> FALSE, mag |-> bytes \o Zeros(8 - Len(bytes))]

\* What a signed typed array (BigInt64Array) reads, and the Number a 32-bit
\* result of a foreign export arrives as.
LoadSigned(bytes) ==
    IF bytes[Len(bytes)] >= 128
    THEN [neg |-> TRUE, mag |-> Negate(bytes, 1) \o Zeros(8 - Len(bytes))]
    ELSE LoadUnsigned(bytes)

\* Instr::LowerNumFromU32Tuple(in, out_low, out_high, num_type)
\* (js.rs 581-594): BigUint64Array and BigInt64Array store the same 8 bytes.
LowerNumFromU32Tuple(c) ==
    LET buffer == Stored(c.in, 8)
    IN  [c EXCEPT !.low = LoadUnsigned(SubSeq(buffer, 1, 4)),
                  !.high = LoadUnsigned(SubSeq(buffer, 5, 8)),
                  !.pc = "lowered"]

\* Mutant: LiftNumFromU32Tuple that reads every number through
\* BigUint64Array.
LiftNumFromU32Tuple_unsigned(c) ==
    LET buffer == Stored(c.low, 4) \o Stored(c.high, 4)
    IN  [c EXCEPT !.out = LoadUnsigned(buffer), !.pc = "lifted"]

\* Instr::LiftNumFromU32Tuple(low, high, out, num_type)   (js.rs 565-577)
LiftNumFromU32Tuple(c) ==
    LET buffer == Stored(c.low, 4) \o Stored(c.high, 4)
    IN  [c EXCEPT !.out = IF c.ty = "U64" THEN LoadUnsigned(buffer)
                          ELSE LoadSigned(buffer),
                  !.pc = "lifted"]

\* Instr::Call (js.rs 641-649) of a foreign function that hands both halves
\* back: each crosses as a 32-bit integer and arrives as a signed Number.
CallWithHalves(c) ==
    [c EXCEPT !.low = LoadSigned(Stored(c.low, 4)),
              !.high = LoadSigned(Stored(c.high, 4)),
              !.crossed = TRUE]

\* The magnitudes of the numbers drawn, each built from four byte pairs.
Magnitudes ==
    LET Quarters == {<<0, 0>>, <<1, 0>>, <<255, 127>>, <<0, 128>>, <<255, 255>>}
    IN  {a \o b \o c \o d : a \in Quarters, b \in Quarters, c \in Quarters,
                            d \in Quarters}

\* The values of u64 and of i64 among them.
NumbersOf(ty) ==
    IF ty = "U64" THEN {[neg |-> FALSE, mag |-> m] : m \in Magnitudes}
    ELSE {[neg |-> FALSE, mag |-> m] : m \in {n \in Magnitudes : n[8] < 128}}
         \cup {[neg |-> TRUE, mag |-> m] :
                 m \in {n \in Magnitudes :
                          /\ n # Zeros(8)
                          /\ n[8] < 128 \/ n = Zeros(7) \o <<128>>}}

RunLowerNum ==
    /\ call.pc = "num"
    /\ call' = LowerNumFromU32Tuple(call)
    /\ UNCHANGED <<boxVars, reachable, asyncVars, lastCall>>

RunCallWithHalves ==
    /\ call.pc = "lowered"
    /\ ~call.crossed
    /\ call' = CallWithHalves(call)
    /\ UNCHANGED <<boxVars, reachable, asyncVars, lastCall>>

RunLiftNum ==
    /\ call.pc = "lowered"
    /\ call' = LiftNumFromU32Tuple(call)
    /\ UNCHANGED <<boxVars, reachable, asyncVars, lastCall>>

NumInit ==
    /\ boxes = <<>>
    /\ dropRegistry = {}
    /\ destructorCalls = [p \in Ptrs |-> 0]
    /\ reachable = {}
    /\ counter = 0
    /\ callbacks = <<>>
    /\ unregisterCalls = <<>>
    /\ futures = <<>>
    /\ streams = <<>>
    /\ timers = <<>>
    /\ iters = <<>>
    /\ foreign = <<>>
    /\ lastCall = NoCall
    /\ \E ty \in {"U64", "I64"} : \E in \in NumbersOf(ty) :
        call = [pc |-> "num", ty |-> ty, in |-> in,
                low |-> LoadUnsigned(Zeros(4)), high |-> LoadUnsigned(Zeros(4)),
                out |-> LoadUnsigned(Zeros(4)), crossed |-> FALSE]

NumNext ==
    \/ RunLowerNum
    \/ RunCallWithHalves
    \/ RunLiftNum

SpecNum == NumInit /\ [][NumNext]_vars

\* ------------------------------------------------------------------ tuples
MaxArity == 3

\* A host array, and a host boolean.
Array(items) == [t |-> "array", items |-> items]

Bool(b) == [t |-> "bool", v |-> b]

\* A variable of the generated function that no statement has declared.
Unbound == [t |-> "unbound"]

\* Instr::BindRets(ret, vars)   (js.rs 557-564): the values of vars.
BindRets(ret, n) ==
    CASE n = 0 -> <<>>
      [] n = 1 -> <<ret>>
      [] OTHER -> [idx \in 1..n |-> ret.items[idx]]

\* Instr::LiftNum (js.rs 598-600) and Instr::LiftBool (js.rs 604) of one
\* bound variable.
LiftElement(ty, in) == IF ty = "Bool" THEN Bool(in.v > 0) ELSE in

\* Mutant: LiftTuple that builds a container for one var too.
LiftTuple_wrapsOne(vs) ==
    CASE Len(vs) = 0 -> Unbound
      [] OTHER -> Array(vs)

\* Instr::LiftTuple(vars, out)   (js.rs 702-710): the value of out for the values vs of vars.
LiftTuple(vs) ==
    CASE Len(vs) = 0 -> Unbound
      [] Len(vs) = 1 -> vs[1]
      [] OTHER -> Array(vs)

\* TsGenerator::generate_return_type (js.rs 178-194) of an element type, as
\* the tokens emitted.
generate_element_type(ty) == IF ty = "Bool" THEN <<"boolean">> ELSE <<"number">>

\* The element types joined with commas.
RECURSIVE join(_)
join(tys) ==
    IF tys = <<>> THEN <<>>
    ELSE IF Len(tys) = 1 THEN generate_element_type(Head(tys))
    ELSE generate_element_type(Head(tys)) \o <<",">> \o join(Tail(tys))

\* TsGenerator::generate_return_type of AbiType::Tuple(tys)  (js.rs 220-226)
generate_return_type(tys) ==
    CASE Len(tys) = 0 -> <<"void">>
      [] Len(tys) = 1 -> generate_element_type(tys[1])
      [] OTHER -> <<"[">> \o join(tys) \o <<"]">>

\* What the foreign export returns for the elements: nothing, the one
\* element, or all of them as the host's multi-value result.
ForeignReturn(elems) ==
    CASE Len(elems) = 0 -> JsUndefined
      [] Len(elems) = 1 -> Num(elems[1].raw)
      [] OTHER -> Array([i \in 1..Len(elems) |-> Num(elems[i].raw)])

RunGenerateReturnType ==
    /\ call.pc = "declared"
    /\ call' = [call EXCEPT !.pc = "called",
                  !.ts = generate_return_type([i \in 1..Len(call.elems) |->
                                                 call.elems[i].ty]),
                  !.ret = ForeignReturn(call.elems)]
    /\ UNCHANGED <<boxVars, reachable, asyncVars, lastCall>>

RunBindRets ==
    /\ call.pc = "called"
    /\ call' = [call EXCEPT !.pc = "bound",
                  !.vars = BindRets(call.ret, Len(call.elems))]
    /\ UNCHANGED <<boxVars, reachable, asyncVars, lastCall>>

RunLiftTuple ==
    /\ call.pc = "bound"
    /\ call' = [call EXCEPT !.pc = "lifted",
                  !.out = LiftTuple([i \in 1..Len(call.vars) |->
                                       LiftElement(call.elems[i].ty, call.vars[i])])]
    /\ UNCHANGED <<boxVars, reachable, asyncVars, lastCall>>

TupleInit ==
    /\ boxes = <<>>
    /\ dropRegistry = {}
    /\ destructorCalls = [p \in Ptrs |-> 0]
    /\ reachable = {}
    /\ counter = 0
    /\ callbacks = <<>>
    /\ unregisterCalls = <<>>
    /\ futures = <<>>
    /\ streams = <<>>
    /\ timers = <<>>
    /\ iters = <<>>
    /\ foreign = <<>>
    /\ lastCall = NoCall
    /\ LET \* the elements are u8 and bool, as the foreign side returns them
           TupleElements ==
                {[ty |-> "U8", raw |-> v] : v \in {0, 1, 7}}
                    \cup {[ty |-> "Bool", raw |-> v] : v \in {0, 1}}
       IN  \E elems \in SeqsUpTo(TupleElements, MaxArity) :
        call = [pc |-> "declared", elems |-> elems, ts |-> <<>>,
                ret |-> JsUndefined, vars |-> <<>>, out |-> Unbound]

TupleNext ==
    \/ RunGenerateReturnType
    \/ RunBindRets
    \/ RunLiftTuple

SpecTuple == TupleInit /\ [][TupleNext]_vars

\* ----------------------------------------------------------------- options
MaxInner == 2

\* A host string value.
Str(s) == [t |-> "str", v |-> s]

\* One instruction of some_instr, run on the variable `some`; `executed`
\* lists the instructions run with the discriminant each found set.
Exec(c, instr, ptr) ==
    LET logged == [c EXCEPT !.executed = Append(@, [instr |-> instr, var |-> c.var])]
    IN  CASE instr = "LowerNum" -> [logged EXCEPT !.lowered = c.some]
          [] instr = "LowerString" ->
                [LowerString([logged EXCEPT !.in = c.some.v], ptr) EXCEPT !.pc = c.pc]

RECURSIVE ExecAll(_, _, _)
ExecAll(c, instrs, ptr) ==
    IF instrs = <<>> THEN c
    ELSE ExecAll(Exec(c, Head(instrs), ptr), Tail(instrs), ptr)

\* Mutant: LowerOption that sets the discriminant after the inner
\* instructions.
LowerOption_innerFirst(c, ptr) ==
    IF LooseNull(c.arg)
    THEN [c EXCEPT !.var = 0]
    ELSE [ExecAll([c EXCEPT !.some = c.arg], c.some_instr, ptr) EXCEPT !.var = 1]

\* Instr::LowerOption(arg, var, some, some_instr)   (js.rs 660-668)
LowerOption(c, ptr) ==
    IF LooseNull(c.arg)
    THEN [c EXCEPT !.var = 0]
    ELSE ExecAll([c EXCEPT !.var = 1, !.some = c.arg], c.some_instr, ptr)

\* Instr::HandleNull(var)   (js.rs 655-659), on the discriminant returned.
HandleNull(c) ==
    IF c.rvar = 0
    THEN [c EXCEPT !.pc = "returned", !.returned = JsNull]
    ELSE [c EXCEPT !.pc = "lift"]

RunLowerOption ==
    /\ call.pc = "arg"
    /\ LET len == IF LooseNull(call.arg) THEN 0 ELSE Len(encode(call.arg.v))
       IN  \E ptr \in allocate(len * call.size, call.align) :
               call' = [LowerOption(call, ptr) EXCEPT !.pc = "lowered"]
    /\ UNCHANGED <<boxVars, reachable, asyncVars, lastCall>>

\* Instr::Call and Instr::BindRets: the foreign function returns an option
\* of a number, its discriminant first.
RunCallOption ==
    /\ call.pc = "lowered"
    /\ \E rvar \in {0, 1}, rval \in {0, 7} :
        call' = [call EXCEPT !.pc = "bound", !.rvar = rvar, !.rval = rval]
    /\ UNCHANGED <<boxVars, reachable, asyncVars, lastCall>>

RunHandleNull ==
    /\ call.pc = "bound"
    /\ call' = HandleNull(call)
    /\ UNCHANGED <<boxVars, reachable, asyncVars, lastCall>>

\* Instr::LiftNum and Instr::ReturnValue of the value present.
RunReturnSome ==
    /\ call.pc = "lift"
    /\ call' = [call EXCEPT !.pc = "returned", !.returned = Num(call.rval)]
    /\ UNCHANGED <<boxVars, reachable, asyncVars, lastCall>>

OptionInit ==
    /\ boxes = <<>>
    /\ dropRegistry = {}
    /\ destructorCalls = [p \in Ptrs |-> 0]
    /\ reachable = {}
    /\ counter = 0
    /\ callbacks = <<>>
    /\ unregisterCalls = <<>>
    /\ futures = <<>>
    /\ streams = <<>>
    /\ timers = <<>>
    /\ iters = <<>>
    /\ foreign = <<>>
    /\ lastCall = NoCall
    /\ \E arg \in {JsNull, JsUndefined} \cup {Str(s) : s \in SeqsUpTo({97, 233}, MaxLen)},
          some_instr \in SeqsUpTo({"LowerNum", "LowerString"}, MaxInner) :
        call = [pc |-> "arg", arg |-> arg, some_instr |-> some_instr,
                var |-> 0, some |-> Unbound, lowered |-> Num(0),
                executed |-> <<>>,
                in |-> <<>>, size |-> 1, align |-> 1, ptr |-> 0, len |-> 0,
                cap |-> 0, memory |-> [a \in Heap |-> 170], allocs |-> <<>>,
                rvar |-> 0, rval |-> 0, returned |-> Unbound]

OptionNext ==
    \/ RunLowerOption
    \/ RunCallOption
    \/ RunHandleNull
    \/ RunReturnSome

SpecOption == OptionInit /\ [][OptionNext]_vars

\* ------------------------------------------------------ WasmMultiValueShim
MaxImports == 2

\* WasmMultiValueShim::new (js.rs 751-754): the shim lays out for Wasm32.
ShimAbi == [kind |-> "Wasm", ptr_width |-> 32]

\* Return::Struct(fields, _), and a return that is not struct-shaped.
Struct(fields) == [t |-> "Struct", fields |-> fields]

Void == [t |-> "Void"]

\* iface.imports(&self.abi): the imports of the interface in their order,
\* each with its export symbol and its return.
Import(i, ffi_ret) == [symbol |-> "__f" \o ToString(i), ffi_ret |-> ffi_ret]

\* The interfaces drawn: each import returns nothing or a struct of one or
\* of two fields among u8, i64, f32 and f64.
Imports ==
    LET FieldTypes == {"U8", "I64", "F32", "F64"}
        Returns ==
            {Void} \cup {Struct(<<a>>) : a \in FieldTypes}
                   \cup {Struct(<<a, b>>) : a \in FieldTypes, b \in FieldTypes}
    IN  UNION {{[i \in 1..n |-> Import(i, rets[i])] : rets \in [1..n -> Returns]} :
                 n \in 0..MaxImports}

\* Mutant: the kind tag chosen by the size before the float types are told
\* apart.
kind_sizeFirst(ty) ==
    LET size == layout(ShimAbi, ty)[1] IN
    CASE size > 4 -> "i64 "
      [] ty = "F32" -> "f32 "
      [] ty = "F64" -> "f64 "
      [] OTHER -> "i32 "

\* The match of generate_args on one field   (js.rs 815-821)
kind(ty) ==
    LET size == layout(ShimAbi, ty)[1] IN
    CASE ty = "F32" -> "f32 "
      [] ty = "F64" -> "f64 "
      [] size > 4 -> "i64 "
      [] OTHER -> "i32 "

\* The loop over the fields   (js.rs 813-823)
RECURSIVE push_str(_, _)
push_str(ret, fields) ==
    IF fields = <<>> THEN ret
    ELSE push_str(ret \o kind(Head(fields)), Tail(fields))

\* WasmMultiValueShim::generate_args   (js.rs 807-830)
RECURSIVE generate_args(_)
generate_args(imports) ==
    IF imports = <<>> THEN <<>>
    ELSE LET import == Head(imports) IN
         (IF import.ffi_ret.t = "Struct"
          THEN <<import.symbol \o " " \o push_str("", import.ffi_ret.fields)>>
          ELSE <<>>)
            \o generate_args(Tail(imports))

Ok == [t |-> "Ok"]

Err(e) == [t |-> "Err", e |-> e]

\* Mutant: run that does not look at the exit status of the command.
run_ignoresExit(path, iface, status) ==
    LET args == generate_args(iface)
        cmd == IF args # <<>>
               THEN <<"multi-value-reverse-polyfill", path>> \o args
               ELSE <<"cp", path, path \o ".multivalue.wasm">>
    IN  [cmd |-> cmd,
         result |-> IF status = "not started" THEN Err("io error") ELSE Ok]

\* WasmMultiValueShim::run   (js.rs 782-805), with the status of the one
\* command it runs: the program cannot be started, or it runs and exits.
run(path, iface, status) ==
    LET args == generate_args(iface)
        cmd == IF args # <<>>
               THEN <<"multi-value-reverse-polyfill", path>> \o args
               ELSE <<"cp", path, path \o ".multivalue.wasm">>
    IN  [cmd |-> cmd,
         result |->
            CASE status = "not started" -> Err("io error")
              [] status = "failed" ->
                    Err(IF args # <<>>
                        THEN "multi-value-reverse-polyfill failed for"
                        ELSE "cp failed")
              [] OTHER -> Ok]

CallGenerateArgs ==
    /\ call.pc = "shim"
    /\ call' = [call EXCEPT !.pc = "generated", !.args = generate_args(call.iface)]
    /\ UNCHANGED <<boxVars, reachable, asyncVars, lastCall>>

CallRun ==
    /\ call.pc = "shim"
    /\ \E status \in {"not started", "failed", "success"} :
        LET r == run(call.path, call.iface, status)
        IN  call' = [call EXCEPT !.pc = "ran", !.status = status,
                                 !.cmd = r.cmd, !.result = r.result]
    /\ UNCHANGED <<boxVars, reachable, asyncVars, lastCall>>

ShimInit ==
    /\ boxes = <<>>
    /\ dropRegistry = {}
    /\ destructorCalls = [p \in Ptrs |-> 0]
    /\ reachable = {}
    /\ counter = 0
    /\ callbacks = <<>>
    /\ unregisterCalls = <<>>
    /\ futures = <<>>
    /\ streams = <<>>
    /\ timers = <<>>
    /\ iters = <<>>
    /\ foreign = <<>>
    /\ lastCall = NoCall
    /\ \E iface \in Imports :
        call = [pc |-> "shim", path |-> "m.wasm", iface |-> iface, args |-> <<>>,
                status |-> "", cmd |-> <<>>, result |-> Ok]

ShimNext ==
    \/ CallGenerateArgs
    \/ CallRun

SpecShim == ShimInit /\ [][ShimNext]_vars

\* ------------------------------------------------------------ Type::to_type
MaxDepth == 2

\* Values of enum Type (parser.rs 250-276) nested at most `depth` deep, with
\* the Box variant Type::to_type matches on (abi.rs 191).
RECURSIVE Shapes(_)
Shapes(depth) ==
    LET Wrappers ==
            {"Ref", "Slice", "Vec", "Option", "Result", "Iter", "Future", "Stream",
             "Box"}
    IN  IF depth = 0
        THEN {[shape |-> p] : p \in PrimType \cup {"String"}}
             \cup {[shape |-> "Ident", ident |-> "a"]}
             \cup {[shape |-> "Tuple", elems |-> e] :
                     e \in {<<>>, <<[shape |-> "U8"], [shape |-> "String"]>>}}
        ELSE Shapes(depth - 1)
             \cup {[shape |-> w, inner |-> s] :
                     w \in Wrappers, s \in Shapes(depth - 1)}

\* #[derive(Debug)] of Type (parser.rs 250) and of AbiType (abi.rs 73): the
\* text `{:?}` formats a value to.
RECURSIVE Debug(_)
Debug(v) ==
    LET RECURSIVE list(_)
        list(vs) ==
            IF vs = <<>> THEN ""
            ELSE IF Len(vs) = 1 THEN Debug(vs[1])
            ELSE Debug(vs[1]) \o ", " \o list(Tail(vs))
    IN  IF "abi" \in DOMAIN v
        THEN CASE v.abi \in {"RefStr", "String"} -> v.abi
               [] v.abi \in {"Prim", "RefSlice", "Vec"} -> v.abi \o "(" \o v.ty \o ")"
               [] v.abi \in {"Box", "Ref"} -> v.abi \o "(\"" \o v.ident \o "\")"
        ELSE CASE v.shape \in PrimType \cup {"String"} -> v.shape
               [] v.shape = "Ident" -> "Ident(\"" \o v.ident \o "\")"
               [] v.shape = "Tuple" -> "Tuple([" \o list(v.elems) \o "])"
               [] OTHER -> v.shape \o "(" \o Debug(v.inner) \o ")"

\* unimplemented!(...)   (abi.rs 181-195): the panic that ends generation.
unimplemented(text) == [panic |-> "not implemented: " \o text]

\* Mutant: a conversion that falls back to a string for what it cannot map.
to_type_substitutes(self) ==
    IF self.shape \in PrimType
    THEN [abi |-> "Prim", ty |-> self.shape]
    ELSE [abi |-> "String"]

\* Type::to_type   (abi.rs 162-197)
RECURSIVE to_type(_)
to_type(self) ==
    CASE self.shape \in PrimType -> [abi |-> "Prim", ty |-> self.shape]
      [] self.shape = "Ref" ->
            LET inner == self.inner
            IN (CASE inner.shape = "String" -> [abi |-> "RefStr"]
                  [] inner.shape = "Slice" ->
                        LET ty == to_type(inner.inner)
                        IN  IF "panic" \in DOMAIN ty THEN ty
                            ELSE IF ty.abi = "Prim"
                            THEN [abi |-> "RefSlice", ty |-> ty.ty]
                            ELSE unimplemented("&" \o Debug(ty))
                  [] inner.shape = "Ident" -> [abi |-> "Ref", ident |-> inner.ident]
                  [] OTHER -> unimplemented("&" \o Debug(inner)))
      [] self.shape = "String" -> [abi |-> "String"]
      [] self.shape = "Vec" ->
            LET ty == to_type(self.inner)
            IN  IF "panic" \in DOMAIN ty THEN ty
                ELSE IF ty.abi = "Prim"
                THEN [abi |-> "Vec", ty |-> ty.ty]
                ELSE unimplemented("Vec<" \o Debug(ty) \o ">")
      [] self.shape = "Box" ->
            LET inner == self.inner
            IN  IF inner.shape = "Ident"
                THEN [abi |-> "Box", ident |-> inner.ident]
                ELSE unimplemented("Box<" \o Debug(inner) \o ">")
      [] OTHER -> unimplemented(Debug(self))

\* One call of Type::to_type.
RunToType ==
    /\ call.pc = "type"
    /\ call' = [call EXCEPT !.pc = "typed", !.out = to_type(call.self)]
    /\ UNCHANGED <<boxVars, reachable, asyncVars, lastCall>>

TypeInit ==
    /\ boxes = <<>>
    /\ dropRegistry = {}
    /\ destructorCalls = [p \in Ptrs |-> 0]
    /\ reachable = {}
    /\ counter = 0
    /\ callbacks = <<>>
    /\ unregisterCalls = <<>>
    /\ futures = <<>>
    /\ streams = <<>>
    /\ timers = <<>>
    /\ iters = <<>>
    /\ foreign = <<>>
    /\ lastCall = NoCall
    /\ \E self \in Shapes(MaxDepth) :
        call = [pc |-> "type", self |-> self, out |-> <<>>]

TypeNext == RunToType

SpecType == TypeInit /\ [][TypeNext]_vars

\* ---------------------------------------------------------------- the parser
MaxDecls == 2

\* GrammarParser::parse(Rule::root, input)   (parser.rs 7-9, 22): the pairs
\* the grammar yields for a source file, given as the declarations written
\* in it.  A pair is [rule, str, inner]: its rule, its text as tokens
\* (Pair::as_str) and its inner pairs (Pair::into_inner).  A written type is
\* a primitive or identifier name, a wrapper around a type, or a tuple with
\* or without a trailing comma; a declaration that is not of the grammar
\* fails the whole parse.
GrammarParser(input) ==
    LET leaf(rule, name) == [rule |-> rule, str |-> <<name>>, inner |-> <<>>]
        RECURSIVE text(_), commas(_), type_(_)
        commas(ts) ==
            IF ts = <<>> THEN <<>>
            ELSE IF Len(ts) = 1 THEN text(ts[1])
            ELSE text(ts[1]) \o <<",">> \o commas(Tail(ts))
        text(t) ==
            CASE t.w \in {"primitive", "ident"} -> <<t.name>>
              [] t.w = "ref_" -> <<"&">> \o text(t.of)
              [] t.w = "slice" -> <<"[">> \o text(t.of) \o <<"]">>
              [] t.w = "tuple" ->
                    <<"(">> \o commas(t.elems)
                        \o (IF t.trailing THEN <<",">> ELSE <<>>) \o <<")">>
              [] OTHER -> <<t.name, "<">> \o text(t.of) \o <<">">>
        type_(t) ==
            [rule |-> "type_", str |-> text(t),
             inner |->
                <<CASE t.w \in {"primitive", "ident"} -> leaf(t.w, t.name)
                    [] t.w = "tuple" ->
                        [rule |-> "tuple", str |-> text(t),
                         inner |-> [i \in 1..Len(t.elems) |-> type_(t.elems[i])]]
                    [] OTHER ->
                        [rule |-> t.w, str |-> text(t), inner |-> <<type_(t.of)>>]>>]
        arg(a) ==
            [rule |-> "arg", str |-> <<>>,
             inner |-> <<leaf("ident", a.ident), type_(a.ty)>>]
        function(d) ==
            [rule |-> "function", str |-> <<>>,
             inner |->
                (IF d.static THEN <<leaf("static_", "static")>> ELSE <<>>)
                \o <<leaf("ident", d.ident),
                     [rule |-> "args", str |-> <<>>,
                      inner |-> [i \in 1..Len(d.args) |-> arg(d.args[i])]]>>
                \o [i \in 1..Len(d.ret) |-> type_(d.ret[i])]]
        item(d) ==
            CASE d.kind = "function" -> function(d)
              [] d.kind = "object" ->
                    [rule |-> "object", str |-> <<>>,
                     inner |-> <<leaf("ident", d.ident)>>
                        \o [i \in 1..Len(d.methods) |-> function(d.methods[i])]]
              [] d.kind = "enum" ->
                    [rule |-> "enum_", str |-> <<>>,
                     inner |-> <<leaf("ident", d.ident)>>
                        \o [i \in 1..Len(d.entries) |->
                              [rule |-> "enum_entry", str |-> <<>>,
                               inner |-> <<leaf("ident", d.entries[i])>>]]]
    IN  IF \E i \in 1..Len(input) : input[i].kind = "garbage"
        THEN Err("syntax")
        ELSE [ok |-> <<[rule |-> "root", str |-> <<>>,
                        inner |-> [i \in 1..Len(input) |-> item(input[i])]]>>]

\* The inner pairs of a pair that carry the given rule, in order: the arms
\* of the `for pair in pair.into_inner() { match pair.as_rule() ...` loops.
into_inner(pair, rule) == SelectSeq(pair.inner, LAMBDA p : p.rule = rule)

\* Type::parse   (parser.rs 279-359)
RECURSIVE Type_parse(_)
Type_parse(outer) ==
    LET pair == outer.inner[1]
        name == Head(pair.str)
    IN  CASE pair.rule = "primitive" ->
               (CASE name = "u8" -> [shape |-> "U8"]
                  [] name = "u16" -> [shape |-> "U16"]
                  [] name = "u32" -> [shape |-> "U32"]
                  [] name = "u64" -> [shape |-> "U64"]
                  [] name = "usize" -> [shape |-> "Usize"]
                  [] name = "i8" -> [shape |-> "I8"]
                  [] name = "i16" -> [shape |-> "I16"]
                  [] name = "i32" -> [shape |-> "I32"]
                  [] name = "i64" -> [shape |-> "I64"]
                  [] name = "isize" -> [shape |-> "Isize"]
                  [] name = "bool" -> [shape |-> "Bool"]
                  [] name = "f32" -> [shape |-> "F32"]
                  [] name = "f64" -> [shape |-> "F64"]
                  [] name = "string" -> [shape |-> "String"])
          [] pair.rule = "ident" -> [shape |-> "Ident", ident |-> name]
          [] pair.rule \in {"slice", "vec", "opt", "res", "ref_", "iter", "fut",
                            "stream"} ->
                LET first ==
                        CASE name \in {"[", "&"} -> name
                          [] name = "Vec" -> "V"
                          [] name = "Option" -> "O"
                          [] name = "Result" -> "R"
                          [] name = "Iter" -> "I"
                          [] name = "Future" -> "F"
                          [] name = "Stream" -> "S"
                    types == into_inner(pair, "type_")
                    inner == Type_parse(types[Len(types)])
                IN  [shape |->
                        CASE first = "[" -> "Slice"
                          [] first = "V" -> "Vec"
                          [] first = "O" -> "Option"
                          [] first = "R" -> "Result"
                          [] first = "&" -> "Ref"
                          [] first = "I" -> "Iter"
                          [] first = "F" -> "Future"
                          [] first = "S" -> "Stream",
                     inner |-> inner]
          [] pair.rule = "tuple" ->
                [shape |-> "Tuple",
                 elems |-> [i \in 1..Len(pair.inner) |-> Type_parse(pair.inner[i])]]

\* Function::parse   (parser.rs 119-171)
Function_parse(pair) ==
    LET idents == into_inner(pair, "ident")
        args == into_inner(pair, "args")
        RECURSIVE all(_)
        all(lists) ==
            IF lists = <<>> THEN <<>>
            ELSE into_inner(Head(lists), "arg") \o all(Tail(lists))
        arg(p) ==
            LET names == into_inner(p, "ident")
                types == into_inner(p, "type_")
            IN  <<Head(names[Len(names)].str), Type_parse(types[Len(types)])>>
        rets == into_inner(pair, "type_")
    IN  [is_static |-> into_inner(pair, "static_") # <<>>,
         ident |-> Head(idents[Len(idents)].str),
         args |-> [i \in 1..Len(all(args)) |-> arg(all(args)[i])],
         ret |-> IF rets = <<>> THEN <<>> ELSE <<Type_parse(rets[Len(rets)])>>]

\* Object::parse   (parser.rs 83-107)
Object_parse(pair) ==
    LET idents == into_inner(pair, "ident")
        methods == into_inner(pair, "function")
    IN  [ident |-> Head(idents[Len(idents)].str),
         methods |-> [i \in 1..Len(methods) |-> Function_parse(methods[i])]]

\* Enum::parse with EnumEntry::parse   (parser.rs 180-248), for entries that
\* wrap nothing.
Enum_parse(pair) ==
    LET idents == into_inner(pair, "ident")
        entries == into_inner(pair, "enum_entry")
        entry(p) ==
            LET names == into_inner(p, "ident")
            IN  [name |-> Head(names[Len(names)].str), inner |-> <<>>]
    IN  [ident |-> Head(idents[Len(idents)].str),
         entries |-> [i \in 1..Len(entries) |-> entry(entries[i])]]

\* Mutant: a parse that lists every item behind the first one in reverse.
parse_reversed(input) ==
    LET pairs == GrammarParser(input)
        items == IF "ok" \in DOMAIN pairs THEN pairs.ok[1].inner ELSE <<>>
        of(rule) == SelectSeq(items, LAMBDA p : p.rule = rule)
        back(s) == [i \in 1..Len(s) |-> s[Len(s) + 1 - i]]
    IN  IF "ok" \notin DOMAIN pairs THEN pairs
        ELSE [ok |->
                [functions |-> back([i \in 1..Len(of("function")) |->
                                        Function_parse(of("function")[i])]),
                 objects |-> [i \in 1..Len(of("object")) |->
                                 Object_parse(of("object")[i])],
                 enums |-> [i \in 1..Len(of("enum_")) |-> Enum_parse(of("enum_")[i])],
                 idents |-> {Object_parse(of("object")[i]).ident :
                                i \in 1..Len(of("object"))}]]

\* Interface::parse   (parser.rs 21-61)
parse(input) ==
    LET pairs == GrammarParser(input)
        RECURSIVE items(_, _)
        items(rest, self) ==
            IF rest = <<>> THEN [ok |-> self]
            ELSE LET pair == Head(rest)
                 IN  CASE pair.rule = "object" ->
                            LET obj == Object_parse(pair)
                            IN  IF obj.ident \in self.idents
                                THEN Err("duplicate object identifier")
                                ELSE items(Tail(rest),
                                        [self EXCEPT
                                            !.idents = @ \cup {obj.ident},
                                            !.objects = Append(@, obj)])
                       [] pair.rule = "function" ->
                            items(Tail(rest),
                                [self EXCEPT
                                    !.functions = Append(@, Function_parse(pair))])
                       [] pair.rule = "enum_" ->
                            items(Tail(rest),
                                [self EXCEPT !.enums = Append(@, Enum_parse(pair))])
                       [] OTHER -> items(Tail(rest), self)
    IN  IF "ok" \notin DOMAIN pairs THEN pairs
        ELSE items(pairs.ok[1].inner,
                [functions |-> <<>>, objects |-> <<>>, enums |-> <<>>, idents |-> {}])

\* Interface::is_object   (parser.rs 63-65)
is_object(self, name) == name \in self.idents

\* The declarations of the source files parsed: those of tests::test_parse
\* (parser.rs 366-581) with arguments, a second object, two enums, names
\* that repeat, and a line that is not of the grammar.
Declarations ==
    LET prim(name) == [w |-> "primitive", name |-> name]
        u8 == prim("u8")
        ref(t) == [w |-> "ref_", of |-> t]
        tuple(elems, trailing) == [w |-> "tuple", elems |-> elems, trailing |-> trailing]
        fn(static, ident, args, ret) ==
            [kind |-> "function", static |-> static, ident |-> ident, args |-> args,
             ret |-> ret]
        x(t) == [ident |-> "x", ty |-> t]
        y(t) == [ident |-> "y", ty |-> t]
    IN  {fn(FALSE, "a", <<>>, <<>>),
         fn(FALSE, "b", <<x(u8), y(ref(prim("string")))>>, <<u8>>),
         fn(FALSE, "a_b", <<y(ref([w |-> "slice", of |-> u8])), x(u8)>>,
            <<[w |-> "vec", name |-> "Vec", of |-> prim("i64")]>>),
         fn(FALSE, "tuple0", <<>>, <<tuple(<<>>, FALSE)>>),
         fn(FALSE, "tuple1", <<>>, <<tuple(<<u8>>, TRUE)>>),
         fn(FALSE, "tuple2", <<>>, <<tuple(<<u8, prim("bool")>>, FALSE)>>),
         fn(FALSE, "tuple3", <<>>, <<tuple(<<u8, prim("bool"), u8>>, TRUE)>>),
         fn(FALSE, "hello", <<>>, <<[w |-> "fut", name |-> "Future", of |-> u8]>>),
         [kind |-> "object", ident |-> "a",
          methods |-> <<fn(TRUE, "new", <<>>, <<>>),
                        fn(FALSE, "b", <<x(ref([w |-> "ident", name |-> "a"]))>>, <<>>)>>],
         [kind |-> "object", ident |-> "b",
          methods |-> <<fn(FALSE, "b", <<>>, <<prim("string")>>),
                        fn(TRUE, "a", <<y(u8), x(prim("f64"))>>, <<>>)>>],
         [kind |-> "object", ident |-> "a", methods |-> <<>>],
         [kind |-> "enum", ident |-> "a", entries |-> <<"x">>],
         [kind |-> "enum", ident |-> "c", entries |-> <<"x", "y">>],
         [kind |-> "garbage"]}

\* ------------------------------------------------- Interface (abi.rs 101-159)
\* The AbiFunction built for one declaration (abi.rs 107-120, 134-146): the
\* arguments are lowered in order, then the return type; the first type
\* to_type has no case for ends the run.  (is_async is read from a field the
\* parser of this tree does not produce and is left out.)
AbiFunction(is_static, object, func) ==
    LET args == [i \in 1..Len(func.args) |->
                    <<func.args[i][1], to_type(func.args[i][2])>>]
        ret == [i \in 1..Len(func.ret) |-> to_type(func.ret[i])]
        panics == SelectSeq([i \in 1..Len(args) |-> args[i][2]] \o ret,
                            LAMBDA ty : "panic" \in DOMAIN ty)
    IN  IF panics # <<>> THEN Head(panics)
        ELSE [is_static |-> is_static, object |-> object, name |-> func.ident,
              args |-> args, ret |-> ret]

\* AbiFunction::fqn   (abi.rs 56-62)
fqn(self) ==
    IF self.object # <<>>
    THEN self.object[1] \o "_" \o self.name
    ELSE self.name

\* A run of one of the functions below that a panic of to_type ended: what
\* it leaves is the panic in place of the callables.
panicked(v) == v # <<>> /\ "panic" \in DOMAIN v[1]

\* Interface::objects   (abi.rs 102-129)
objects(self) ==
    LET methods(object) ==
            [i \in 1..Len(object.methods) |->
                AbiFunction(object.methods[i].is_static, <<object.ident>>,
                            object.methods[i])]
        objs == [i \in 1..Len(self.objects) |->
                    [name |-> self.objects[i].ident,
                     methods |-> methods(self.objects[i])]]
        RECURSIVE panics(_)
        panics(os) ==
            IF os = <<>> THEN <<>>
            ELSE SelectSeq(Head(os).methods, LAMBDA f : "panic" \in DOMAIN f)
                    \o panics(Tail(os))
    IN  IF panics(objs) # <<>> THEN <<Head(panics(objs))>> ELSE objs

\* Interface::functions   (abi.rs 131-150)
functions(self) ==
    LET funcs == [i \in 1..Len(self.functions) |->
                    AbiFunction(FALSE, <<>>, self.functions[i])]
        panics == SelectSeq(funcs, LAMBDA f : "panic" \in DOMAIN f)
    IN  IF panics # <<>> THEN <<Head(panics)>> ELSE funcs

\* Mutant: the methods of the objects come before the free functions.
into_functions_methodsFirst(self) ==
    LET RECURSIVE extend(_)
        extend(objs) ==
            IF objs = <<>> THEN <<>> ELSE Head(objs).methods \o extend(Tail(objs))
    IN  IF panicked(functions(self)) THEN functions(self)
        ELSE IF panicked(objects(self)) THEN objects(self)
        ELSE extend(objects(self)) \o functions(self)

\* Interface::into_functions   (abi.rs 152-158)
into_functions(self) ==
    LET RECURSIVE extend(_, _)
        extend(funcs, objs) ==
            IF objs = <<>> THEN funcs
            ELSE extend(funcs \o Head(objs).methods, Tail(objs))
    IN  IF panicked(functions(self)) THEN functions(self)
        ELSE IF panicked(objects(self)) THEN objects(self)
        ELSE extend(functions(self), objects(self))

\* JsGenerator::generate   (js.rs 475-481, with generate_object 485-503): the
\* callables generate_function is called for, in order: those of the Api
\* class, then the methods of the class of each object.  iterators_,
\* futures_ and streams_ are what iface.iterators(), iface.futures() and
\* iface.streams() return; next() and poll() give the synthesized callable
\* of each.
generate(iface, iterators_, futures_, streams_) ==
    LET synthesized(tys, op) ==
            [i \in 1..Len(tys) |->
                [is_static |-> FALSE, object |-> <<>>, name |-> tys[i] \o op,
                 args |-> <<>>, ret |-> <<>>]]
        RECURSIVE classes(_)
        classes(objs) ==
            IF objs = <<>> THEN <<>> ELSE Head(objs).methods \o classes(Tail(objs))
    IN  IF panicked(functions(iface)) THEN functions(iface)
        ELSE IF panicked(objects(iface)) THEN objects(iface)
        ELSE functions(iface) \o synthesized(iterators_, "_iter_next")
                \o synthesized(futures_, "_future_poll")
                \o synthesized(streams_, "_stream_poll")
                \o classes(objects(iface))

\* Interface::parse of one source file.
RunParse ==
    /\ call.pc = "source"
    /\ LET res == parse(call.input)
       IN  call' = [call EXCEPT !.pc = IF "ok" \in DOMAIN res THEN "parsed" ELSE "failed",
                                !.iface = res]
    /\ UNCHANGED <<boxVars, reachable, asyncVars, lastCall>>

\* Interface::into_functions of the parsed interface; a build may run it
\* again over the same interface.
RunIntoFunctions ==
    /\ call.pc \in {"parsed", "flattened"}
    /\ call.runs < 2
    /\ call' = [call EXCEPT !.pc = "flattened",
                            !.runs = @ + 1,
                            !.previous = call.funcs,
                            !.funcs = into_functions(call.iface.ok)]
    /\ UNCHANGED <<boxVars, reachable, asyncVars, lastCall>>

\* JsGenerator::generate of the parsed interface.
RunGenerate ==
    /\ call.pc = "flattened"
    /\ \E iterators \in SeqsUpTo({"items"}, 1), futs \in SeqsUpTo({"hello"}, 1),
          strs \in SeqsUpTo({"ticks"}, 1) :
        call' = [call EXCEPT !.pc = "generated",
                             !.iterators = iterators,
                             !.futures = futs,
                             !.streams = strs,
                             !.out = generate(call.iface.ok, iterators, futs, strs)]
    /\ UNCHANGED <<boxVars, reachable, asyncVars, lastCall>>

IfaceInit ==
    /\ boxes = <<>>
    /\ dropRegistry = {}
    /\ destructorCalls = [p \in Ptrs |-> 0]
    /\ reachable = {}
    /\ counter = 0
    /\ callbacks = <<>>
    /\ unregisterCalls = <<>>
    /\ futures = <<>>
    /\ streams = <<>>
    /\ timers = <<>>
    /\ iters = <<>>
    /\ foreign = <<>>
    /\ lastCall = NoCall
    /\ \E input \in SeqsUpTo(Declarations, MaxDecls) :
        call = [pc |-> "source", input |-> input, iface |-> <<>>, runs |-> 0,
                funcs |-> <<>>, previous |-> <<>>, iterators |-> <<>>,
                futures |-> <<>>, streams |-> <<>>, out |-> <<>>]

IfaceNext ==
    \/ RunParse
    \/ RunIntoFunctions
    \/ RunGenerate

SpecIface == IfaceInit /\ [][IfaceNext]_vars

\* ------------------------------------------------------------------ claims

\* The outcome the lifecycle of a Handle prescribes for a call of `op` on a
\* Box in state `pre`.
ExpectedErr(op, pre) ==
    IF pre.dropped
    THEN (IF op = "drop" THEN "double free" ELSE "use after free")
    ELSE IF pre.moved
    THEN (CASE op = "borrow" -> "use after move"
            [] op = "move" -> "can't move value twice"
            [] op = "drop" -> "can't drop moved value")
    ELSE NoErr

\* C1: for one Box driven by any sequence of borrow, move and drop calls,
\* each call succeeds when the Box is live; on a dropped Box borrow and move
\* fail with "use after free" and drop with "double free"; on a moved Box
\* borrow fails with "use after move", move with "can't move value twice"
\* and drop with "can't drop moved value".
C1_BoxLifecycle ==
    lastCall.op \in {"borrow", "move", "drop"} =>
        lastCall.err = ExpectedErr(lastCall.op, lastCall.pre)

\* A drop rejected on a moved Box: the failing side of the lifecycle.
C1_Witness ==
    /\ lastCall.op = "drop"
    /\ lastCall.pre.moved
    /\ lastCall.err = "can't drop moved value"

\* C2: over any sequence of borrow, move and drop calls and finalizer firings
\* the destructor of a wrapped resource is invoked at most once: exactly once
\* by the successful drop of its Box, and never once the Box was moved.
C2_DestructorAtMostOnce ==
    /\ \A p \in DOMAIN destructorCalls : destructorCalls[p] <= 1
    /\ \A b \in DOMAIN boxes :
        /\ boxes[b].dropped => destructorCalls[boxes[b].ptr] = 1
        /\ boxes[b].moved => destructorCalls[boxes[b].ptr] = 0

\* The collector has run a finalizer while another Box, dropped by hand or
\* moved, was unreachable as well.
C2_Witness ==
    /\ lastCall.op = "finalizer"
    /\ \E b \in DOMAIN boxes :
        /\ b \notin reachable
        /\ boxes[b].dropped \/ boxes[b].moved

\* ------------------------------------------------- claims on the futures
FutureIds == DOMAIN futures

StreamIds == DOMAIN streams

Unregistrations(idx) ==
    IF idx \in DOMAIN unregisterCalls THEN unregisterCalls[idx] ELSE 0

\* C3: a future whose foreign poll is pending k times and then yields a value
\* v resolves the host promise to v exactly once, after exactly k+1 polls,
\* with its slot unregistered once and its Handle dropped once; until then
\* nothing of this has happened.
C3_FutureResolvesOnce ==
    \A f \in FutureIds :
        LET fut == futures[f]
            fs == foreign[f]
        IN  fs.final.t = "num" =>
              /\ fs.polls >= 1 /\ fs.polls <= fs.k + 1
              /\ (fs.polls = fs.k + 1) <=> (fut.state = "fulfilled")
              /\ fut.rejectCalls = 0
              /\ fut.state = "fulfilled" =>
                    /\ fut.value = fs.final
                    /\ fut.resolveCalls = 1
                    /\ Unregistrations(fut.idx) = 1
                    /\ fut.idx \notin DOMAIN callbacks
                    /\ boxes[fut.box].dropped
                    /\ destructorCalls[boxes[fut.box].ptr] = 1
              /\ fut.state # "fulfilled" =>
                    /\ fut.state = "pending"
                    /\ fut.resolveCalls = 0
                    /\ Unregistrations(fut.idx) = 0
                    /\ Live(boxes[fut.box])
                    /\ destructorCalls[boxes[fut.box].ptr] = 0

\* The scenario of the specification: pending once, then 42 after one wake.
C3_Witness ==
    /\ lastCall.op = "wake"
    /\ \E f \in FutureIds :
        /\ foreign[f].k = 1
        /\ foreign[f].polls = 2
        /\ futures[f].state = "fulfilled"
        /\ futures[f].value = Num(42)

\* C4: nativeFuture reserves exactly one slot, registers the callback at it
\* and then polls once at once: every poll hands the foreign side a slot that
\* already has its callback, and a future ready at its first poll is settled
\* without any wake.
C4_FutureStepsInOrder ==
    /\ counter = Cardinality(FutureIds) + 2 * Cardinality(StreamIds)
    /\ \A f \in FutureIds :
        /\ foreign[f].polls >= 1
        /\ foreign[f].slotLive
        /\ foreign[f].k = 0 => futures[f].state # "pending"
        /\ foreign[f].k = 0 /\ foreign[f].final.t = "num" =>
              futures[f].state = "fulfilled" /\ foreign[f].polls = 1

\* A future that was ready at once, seen right after nativeFuture returned.
C4_Witness ==
    /\ lastCall.op = "nativeFuture"
    /\ LET f == Cardinality(DOMAIN foreign) IN
        /\ f \in FutureIds
        /\ foreign[f].k = 0
        /\ foreign[f].polls = 1
        /\ futures[f].state = "fulfilled"

C6_IterDropsAtSentinel ==
    \A it \in DOMAIN iters :
        LET g == iters[it]
            fs == foreign[it]
            n == Len(g.yielded)
        IN  /\ n <= Len(fs.all)
            /\ g.yielded = SubSeq(fs.all, 1, n)
            /\ fs.items = SubSeq(fs.all, n + 1, Len(fs.all))
            /\ fs.calls = n + (IF fs.ended THEN 1 ELSE 0)
            /\ fs.borrowedLive
            /\ boxes[g.box].dropped <=> fs.ended
            /\ ~boxes[g.box].moved
            /\ destructorCalls[boxes[g.box].ptr] <= 1
            /\ fs.ended =>
                /\ g.gen = "completed"
                /\ g.yielded = fs.all
                /\ destructorCalls[boxes[g.box].ptr] = 1

\* An iterator of two elements pulled to its end.
C6_Witness ==
    /\ lastCall.op = "next"
    /\ \E it \in DOMAIN iters :
        /\ Len(iters[it].yielded) = 2
        /\ foreign[it].ended
        /\ foreign[it].calls = 3
        /\ boxes[iters[it].box].dropped

C12_NoZeroLengthDeallocate ==
    /\ \A i \in 1..Len(call.deallocs) : call.deallocs[i].size > 0
    /\ call.pc = "returned" =>
        call.deallocs =
            (IF call.len > 0
             THEN <<[ptr |-> call.ptr, size |-> call.len * call.size,
                     align |-> call.align]>>
             ELSE <<>>)

\* A vector of two 16-bit elements was freed, and so was none of length 0.
C12_Witness ==
    /\ call.pc = "returned"
    /\ call.ty = "I16"
    /\ call.len = 2
    /\ call.size = 4
    /\ call.deallocs = <<[ptr |-> call.ptr, size |-> 8, align |-> 4]>>

\* C14: LowerString/LowerVec writes the len elements of the value into
\* memory freshly allocated at ptr, with cap = len, and LiftString/LiftVec
\* of the same (ptr, len) yields a value equal to the original, element for
\* element and in order; the empty value included.
C14_LowerThenLiftIsIdentity ==
    call.pc \in {"lifted", "returned"} =>
        /\ call.cap = call.len
        /\ call.allocs = <<[size |-> call.len * call.size, align |-> call.align]>>
        /\ call.out = call.in

\* The bytes of a + b + carry, least significant first, followed by the
\* carry out.
RECURSIVE Sum(_, _, _)
Sum(a, b, carry) ==
    IF a = <<>> THEN <<carry>>
    ELSE LET s == Head(a) + Head(b) + carry
         IN  <<s % 256>> \o Sum(Tail(a), Tail(b), s \div 256)

\* C13: for every 64-bit integer x, u64 or i64, LowerNumFromU32Tuple gives
\* for low the bits 0..31 and for high the bits 32..63 of the two's
\* complement pattern of x (the pattern of a negative x is the one that adds
\* with |x| to 2^64), and LiftNumFromU32Tuple of the two halves gives x.
C13_SplitThenJoinIsIdentity ==
    /\ (call.pc = "lowered" /\ ~call.crossed) =>
        /\ ~call.low.neg /\ ~call.high.neg
        /\ SubSeq(call.low.mag, 5, 8) = Zeros(4)
        /\ SubSeq(call.high.mag, 5, 8) = Zeros(4)
        /\ LET pattern == SubSeq(call.low.mag, 1, 4) \o SubSeq(call.high.mag, 1, 4)
           IN  IF call.in.neg
               THEN Sum(call.in.mag, pattern, 0) = Zeros(8) \o <<1>>
               ELSE pattern = call.in.mag
    /\ call.pc = "lifted" => call.out = call.in

\* The i64 -1 came back from its two halves, each all ones, after both had
\* crossed the call as 32-bit integers.
C13_Witness ==
    /\ call.pc = "lifted"
    /\ call.crossed
    /\ call.ty = "I64"
    /\ call.in = [neg |-> TRUE, mag |-> <<1, 0, 0, 0, 0, 0, 0, 0>>]
    /\ call.low = call.in
    /\ call.out = call.in

\* The host value of one tuple element.
Lifted(e) == IF e.ty = "Bool" THEN Bool(e.raw # 0) ELSE Num(e.raw)

\* The TypeScript type of one tuple element.
TsOf(e) == IF e.ty = "Bool" THEN "boolean" ELSE "number"

\* C15: LiftTuple over n vars gives no value for n = 0, the element itself
\* and no container for n = 1, and for n >= 2 a container of exactly n
\* elements, the i-th being the i-th var; the TypeScript return type is void,
\* the element's type, or the bracketed list of the n element types.
C15_TupleArity ==
    LET n == Len(call.elems) IN
    /\ call.pc = "lifted" =>
        CASE n = 0 -> call.out = Unbound
          [] n = 1 -> call.out = Lifted(call.elems[1])
          [] OTHER -> /\ call.out.t = "array"
                      /\ Len(call.out.items) = n
                      /\ \A i \in 1..n : call.out.items[i] = Lifted(call.elems[i])
    /\ call.pc # "declared" =>
        CASE n = 0 -> call.ts = <<"void">>
          [] n = 1 -> call.ts = <<TsOf(call.elems[1])>>
          [] OTHER -> /\ Len(call.ts) = 2 * n + 1
                      /\ call.ts[1] = "[" /\ call.ts[2 * n + 1] = "]"
                      /\ \A i \in 1..n : call.ts[2 * i] = TsOf(call.elems[i])
                      /\ \A i \in 1..(n - 1) : call.ts[2 * i + 1] = ","

\* A one-element tuple lifted to its bare element.
C15_Witness ==
    /\ call.pc = "lifted"
    /\ call.elems = <<[ty |-> "U8", raw |-> 7]>>
    /\ call.out = Num(7)
    /\ call.ts = <<"number">>

\* C16: LowerOption sets the discriminant to 0 and runs none of its inner
\* instructions, so allocates nothing, when the argument is absent; it sets
\* the discriminant to 1 and then runs the inner instructions in their order
\* when the argument is present; HandleNull makes the call return null
\* exactly when the discriminant returned is 0.
C16_OptionDiscriminant ==
    /\ call.pc # "arg" =>
        IF call.arg \in {JsNull, JsUndefined}
        THEN call.var = 0 /\ call.executed = <<>> /\ call.allocs = <<>>
        ELSE /\ call.var = 1
             /\ call.some = call.arg
             /\ call.executed =
                    [i \in 1..Len(call.some_instr) |->
                        [instr |-> call.some_instr[i], var |-> 1]]
    /\ call.pc = "lift" => call.rvar # 0
    /\ call.pc = "returned" => (call.returned = JsNull <=> call.rvar = 0)

\* The empty string is present: it was lowered by two inner instructions in
\* order, and the call returned null for the discriminant 0.
C16_Witness ==
    /\ call.pc = "returned"
    /\ call.arg = Str(<<>>)
    /\ call.some_instr = <<"LowerString", "LowerNum">>
    /\ Len(call.executed) = 2
    /\ Len(call.allocs) = 1
    /\ call.rvar = 0
    /\ call.returned = JsNull

\* ------------------------------------------------ claims on Abi::layout
\* The width in bytes of a fixed-width primitive.
NaturalSize(ty) ==
    CASE ty \in {"U8", "I8", "Bool"} -> 1
      [] ty \in {"U16", "I16"} -> 2
      [] ty \in {"U32", "I32", "F32"} -> 4
      [] ty \in {"U64", "I64", "F64"} -> 8

\* C17: for a fixed-width primitive Abi::layout returns its width in bytes
\* under a Native target (1, 2, 4 or 8); under a Wasm target 4 for every
\* primitive narrower than 4 bytes and 8 for the 8-byte ones; and for every
\* target and every primitive the alignment returned equals the size.
C17_FixedWidthLayout ==
    call.pc = "laid out" =>
        /\ call.out[2] = call.out[1]
        /\ call.ty \notin {"Usize", "Isize"} =>
            /\ call.self.kind = "Native" => call.out[1] = NaturalSize(call.ty)
            /\ call.self.kind = "Wasm" =>
                call.out[1] = (IF NaturalSize(call.ty) < 4 THEN 4
                               ELSE NaturalSize(call.ty))

\* An 8-bit primitive laid out for a Wasm target.
C17_Witness ==
    /\ call.pc = "laid out"
    /\ call.self.kind = "Wasm"
    /\ call.ty = "U8"
    /\ call.out = <<4, 4>>

\* C18: for Usize and Isize Abi::layout returns the pointer size in bytes, 4
\* for a 32-bit and 8 for a 64-bit pointer width, under Native and Wasm.
C18_PointerSizeInBytes ==
    (call.pc = "laid out" /\ call.ty \in {"Usize", "Isize"}) =>
        call.out[1] = (IF ptr_width(call.self) = 32 THEN 4 ELSE 8)

\* ------------------------------------------- claims on WasmMultiValueShim
IsStruct(import) == import.ffi_ret.t = "Struct"

\* The kind tag of a field type: f32, f64, and for the integers i64 when the
\* Wasm size, the width padded to 4 bytes, exceeds 4 bytes and i32 otherwise.
Tag(ty) ==
    CASE ty = "F32" -> "f32"
      [] ty = "F64" -> "f64"
      [] OTHER -> IF NaturalSize(ty) > 4 THEN "i64" ELSE "i32"

\* C19: generate_args returns one argument per import whose return is
\* struct-shaped, in import order, and none for the others; each argument
\* is the export symbol followed by the kind tag of every field in field
\* order.
C19_OneArgumentPerStructReturn ==
    call.pc = "generated" =>
        LET structs == SelectSeq(call.iface, IsStruct) IN
        /\ Len(call.args) = Len(structs)
        /\ \A k \in 1..Len(structs) :
            LET fields == structs[k].ffi_ret.fields
                tags == [i \in 1..2 |-> IF i <= Len(fields)
                                           THEN Tag(fields[i]) \o " " ELSE ""]
            IN  call.args[k] = structs[k].symbol \o " " \o tags[1] \o tags[2]

\* The second of two imports returns a struct of an f64 and a 64-bit
\* integer, the first returns none.
C19_Witness ==
    /\ call.pc = "generated"
    /\ Len(call.iface) = 2
    /\ call.iface[1].ffi_ret = Void
    /\ call.iface[2].ffi_ret = Struct(<<"F64", "I64">>)
    /\ call.args = <<"__f2 f64 i64 ">>

\* C20: run returns an error whenever the command it runs cannot be started
\* or exits unsuccessfully, and Ok only when it succeeded; the command is
\* the rewrite tool with the path and the arguments when some import
\* returns a struct, and otherwise `cp <path> <path>.multivalue.wasm`,
\* whose failure is an error as well.
C20_RunFailsLoudly ==
    call.pc = "ran" =>
        /\ call.result = Ok <=> call.status = "success"
        /\ call.status \in {"not started", "failed"} => call.result.t = "Err"
        /\ IF \E i \in 1..Len(call.iface) : IsStruct(call.iface[i])
           THEN /\ call.cmd[1] = "multi-value-reverse-polyfill"
                /\ call.cmd[2] = call.path
                /\ Len(call.cmd) > 2
           ELSE call.cmd = <<"cp", call.path, "m.wasm.multivalue.wasm">>

\* The copy that stands in for the rewrite failed.
C20_Witness ==
    /\ call.pc = "ran"
    /\ call.iface = <<Import(1, Void)>>
    /\ call.cmd[1] = "cp"
    /\ call.status = "failed"
    /\ call.result = Err("cp failed")

\* ------------------------------------------------ claims on the registry
\* The slot a closure was made for, by the object that made it.
SlotOf(cb) ==
    CASE cb.kind = "future" -> futures[cb.obj].idx
      [] cb.kind = "next" -> streams[cb.obj].nextIdx
      [] cb.kind = "done" -> streams[cb.obj].doneIdx

\* Whether a call of closure cb unregisters anything by itself.
Finishes(cb) ==
    \/ cb.kind = "done"
    \/ cb.kind = "future" /\ foreign[cb.obj].pendingLeft = 0

\* C7: a wake through __notifier_callback(idx) runs the callback registered
\* at idx, once, and no other callback: only the object that holds slot idx
\* is polled or changed, and the lookup registers and unregisters nothing
\* (the registry changes only when that callback finishes its own object).
C7_WakeRunsRegisteredCallback ==
    \A idx \in DOMAIN callbacks :
        LET cb == callbacks[idx]
            r == notifier_callback(Host, idx)
        IN  /\ r.s.invoked = <<cb>>
            /\ SlotOf(cb) = idx
            /\ \A p \in 1..Len(r.s.polled) : r.s.polled[p].obj = cb.obj
            /\ cb.kind = "future" =>
                r.s.polled = <<[obj |-> cb.obj, ptr |-> boxes[futures[cb.obj].box].ptr,
                                slots |-> <<idx>>, registered |-> TRUE]>>
            /\ \A o \in DOMAIN foreign \ {cb.obj} :
                /\ r.s.foreign[o] = foreign[o]
                /\ r.s.boxes[o] = boxes[o]
                /\ o \in FutureIds => r.s.futures[o] = futures[o]
                /\ o \in StreamIds => r.s.streams[o] = streams[o]
            /\ r.s.counter = counter
            /\ DOMAIN r.s.callbacks \subseteq DOMAIN callbacks
            /\ ~Finishes(cb) => r.s.callbacks = callbacks

\* A wake that ran a callback while another one was registered too.
C7_Witness ==
    /\ lastCall.op = "wake"
    /\ lastCall.err = NoErr
    /\ \E f \in FutureIds :
        /\ foreign[f].polls = 2
        /\ \E idx \in DOMAIN callbacks : callbacks[idx].obj # f

NotAFunction == "TypeError: notifierRegistry.callbacks[idx] is not a function"

\* C8: a wake at a slot with no registered callback raises an error to the
\* caller of the entry point and does nothing else: no callback runs, no
\* poll is made, no Handle is dropped.
C8_DanglingWakeRaises ==
    \A idx \in 0..MaxSlots \ DOMAIN callbacks :
        LET r == notifier_callback(Host, idx)
        IN  /\ r.err = NotAFunction
            /\ r.s.invoked = <<>>
            /\ r.s.polled = <<>>
            /\ r.s = Host

\* A wake that failed after a future had resolved and freed its slot.
C8_Witness ==
    /\ lastCall.op = "wake"
    /\ lastCall.err = NotAFunction
    /\ \E f \in FutureIds :
        /\ futures[f].state # "pending"
        /\ futures[f].idx \notin DOMAIN callbacks

\* Every slot an object was given, with the object and the role it has.
HeldSlots ==
    {[obj |-> f, role |-> "future", idx |-> futures[f].idx] : f \in FutureIds}
    \cup {[obj |-> st, role |-> "next", idx |-> streams[st].nextIdx] : st \in StreamIds}
    \cup {[obj |-> st, role |-> "done", idx |-> streams[st].doneIdx] : st \in StreamIds}

\* C9: reserveSlot returns 0, 1, 2, ... and never the same slot twice, also
\* after earlier slots were unregistered: the slots of all futures and
\* streams are pairwise distinct, they are exactly the slots below the
\* counter, and the next slot returned is above them all.
C9_SlotsNeverReused ==
    /\ \A a, b \in HeldSlots : a # b => a.idx # b.idx
    /\ {a.idx : a \in HeldSlots} = 0..(counter - 1)
    /\ reserveSlot(Host).ret = counter
    /\ reserveSlot(Host).s.counter = counter + 1
    /\ \A a, b \in HeldSlots : a.obj < b.obj => a.idx < b.idx

\* A second object got its slot after the first one's slot was unregistered.
C9_Witness ==
    \E f \in FutureIds, o \in DOMAIN foreign :
        /\ f < o
        /\ foreign[f].k = 0
        /\ futures[f].idx \notin DOMAIN callbacks
        /\ \E a \in HeldSlots : a.obj = o /\ a.idx > futures[f].idx


\* ------------------------------------------------- claims on the interface
\* The shapes C24 lists as supported.
Supported(ty) ==
    \/ ty.shape \in PrimType \cup {"String"}
    \/ /\ ty.shape = "Ref"
       /\ \/ ty.inner.shape \in {"String", "Ident"}
          \/ ty.inner.shape = "Slice" /\ ty.inner.inner.shape \in PrimType
    \/ ty.shape = "Vec" /\ ty.inner.shape \in PrimType
    \/ ty.shape = "Box" /\ ty.inner.shape = "Ident"

\* A shape with the shapes nested in it.
RECURSIVE Parts(_)
Parts(ty) ==
    {ty} \cup (IF "inner" \in DOMAIN ty THEN Parts(ty.inner) ELSE {})

\* C24: Type::to_type returns the AbiType of a supported shape (a primitive,
\* &string, &[prim], &Ident, string, Vec<prim>, Box<Ident>) and for every
\* other shape it returns nothing: it aborts with a message that names the
\* shape it could not map (the shape, or the part of it that has no case).
C24_ToTypeOrAbort ==
    call.pc = "typed" =>
        LET ty == call.self
            out == call.out
        IN  IF Supported(ty)
            THEN out =
                   CASE ty.shape \in PrimType -> [abi |-> "Prim", ty |-> ty.shape]
                     [] ty.shape = "String" -> [abi |-> "String"]
                     [] ty.shape = "Vec" -> [abi |-> "Vec", ty |-> ty.inner.shape]
                     [] ty.shape = "Box" -> [abi |-> "Box", ident |-> ty.inner.ident]
                     [] ty.inner.shape = "String" -> [abi |-> "RefStr"]
                     [] ty.inner.shape = "Ident" ->
                            [abi |-> "Ref", ident |-> ty.inner.ident]
                     [] ty.inner.shape = "Slice" ->
                            [abi |-> "RefSlice", ty |-> ty.inner.inner.shape]
            ELSE /\ DOMAIN out = {"panic"}
                 /\ \E part \in Parts(ty), pre \in {"", "&"}, wrap \in {"", "Vec", "Box"} :
                        \E named \in {Debug(part)} \cup
                                     (IF Supported(part) THEN {Debug(to_type(part))}
                                      ELSE {}) :
                            out.panic = "not implemented: " \o
                                (IF wrap = "" THEN pre \o named
                                 ELSE wrap \o "<" \o named \o ">")

\* A reference to a slice of strings has aborted, naming what the slice
\* holds.
C24_Witness ==
    /\ call.pc = "typed"
    /\ call.self = [shape |-> "Ref",
                    inner |-> [shape |-> "Slice", inner |-> [shape |-> "String"]]]
    /\ call.out = [panic |-> "not implemented: &String"]

\* The callables written in a source file, each with the object it is
\* written in: the free functions in the order written, then the methods of
\* each object.
Written(input) ==
    LET fns == SelectSeq(input, LAMBDA d : d.kind = "function")
        objs == SelectSeq(input, LAMBDA d : d.kind = "object")
        RECURSIVE methods(_)
        methods(os) ==
            IF os = <<>> THEN <<>>
            ELSE [i \in 1..Len(Head(os).methods) |->
                    [object |-> <<Head(os).ident>>, decl |-> Head(os).methods[i]]]
                 \o methods(Tail(os))
    IN  [i \in 1..Len(fns) |-> [object |-> <<>>, decl |-> fns[i]]] \o methods(objs)

C22_DistinctExportSymbols ==
    (call.pc = "flattened" /\ ~panicked(call.funcs)) =>
        \A i, j \in 1..Len(call.funcs) :
            LET f == call.funcs[i]
                g == call.funcs[j]
            IN  /\ fqn(f) = IF f.object = <<>> THEN f.name
                            ELSE f.object[1] \o "_" \o f.name
                /\ <<f.object, f.name>> # <<g.object, g.name>> => fqn(f) # fqn(g)

\* C23: parse fails whenever two top-level items (objects, free functions
\* or enums) of the file carry the same identifier; and when it succeeds,
\* is_object holds of exactly the identifiers of the objects declared.
C23_DuplicateIdentifiersRejected ==
    call.pc # "source" =>
        LET items == SelectSeq(call.input, LAMBDA d : d.kind # "garbage")
            duplicate ==
                \E i, j \in 1..Len(items) : i # j /\ items[i].ident = items[j].ident
        IN  /\ duplicate => "ok" \notin DOMAIN call.iface
            /\ "ok" \in DOMAIN call.iface =>
                \A i \in 1..Len(items) :
                    is_object(call.iface.ok, items[i].ident)
                        <=> \E j \in 1..Len(items) :
                                /\ items[j].kind = "object"
                                /\ items[j].ident = items[i].ident

\* The Type a written type stands for.
RECURSIVE TypeOf(_)
TypeOf(t) ==
    CASE t.w = "primitive" ->
            [shape |->
                (CASE t.name = "u8" -> "U8" [] t.name = "i64" -> "I64"
                   [] t.name = "f64" -> "F64" [] t.name = "bool" -> "Bool"
                   [] t.name = "string" -> "String")]
      [] t.w = "ident" -> [shape |-> "Ident", ident |-> t.name]
      [] t.w = "tuple" ->
            [shape |-> "Tuple", elems |-> [i \in 1..Len(t.elems) |-> TypeOf(t.elems[i])]]
      [] OTHER ->
            [shape |->
                (CASE t.w = "ref_" -> "Ref" [] t.w = "slice" -> "Slice"
                   [] t.w = "vec" -> "Vec" [] t.w = "fut" -> "Future"),
             inner |-> TypeOf(t.of)]

\* C25: a successful parse keeps what the file declares: the functions, the
\* objects and the methods of each object in source order; of each function
\* its identifier, its arguments in order with their types, no return type
\* exactly when none is written, and is_static exactly when it is declared
\* static; a tuple type of 0 to 3 elements (with or without a trailing
\* comma) as a Tuple of that many elements in order; an empty file as an
\* Interface with no items.
C25_ParsePreservesDeclarations ==
    (call.pc # "source" /\ "ok" \in DOMAIN call.iface) =>
        LET iface == call.iface.ok
            fns == SelectSeq(call.input, LAMBDA d : d.kind = "function")
            objs == SelectSeq(call.input, LAMBDA d : d.kind = "object")
            kept(f, d) ==
                /\ f.ident = d.ident
                /\ f.is_static = d.static
                /\ f.args = [k \in 1..Len(d.args) |->
                                <<d.args[k].ident, TypeOf(d.args[k].ty)>>]
                /\ f.ret = [k \in 1..Len(d.ret) |-> TypeOf(d.ret[k])]
        IN  /\ Len(iface.functions) = Len(fns)
            /\ \A i \in 1..Len(fns) : kept(iface.functions[i], fns[i])
            /\ Len(iface.objects) = Len(objs)
            /\ \A i \in 1..Len(objs) :
                /\ iface.objects[i].ident = objs[i].ident
                /\ Len(iface.objects[i].methods) = Len(objs[i].methods)
                /\ \A k \in 1..Len(objs[i].methods) :
                    kept(iface.objects[i].methods[k], objs[i].methods[k])
            /\ call.input = <<>> =>
                iface = [functions |-> <<>>, objects |-> <<>>, enums |-> <<>>,
                         idents |-> {}]

\* The file "fn tuple3() -> (u8, bool, u8,); fn tuple1() -> (u8,);" was
\* parsed.
C25_Witness ==
    /\ call.pc = "parsed"
    /\ Len(call.iface.ok.functions) = 2
    /\ call.iface.ok.functions[1].ident = "tuple3"
    /\ call.iface.ok.functions[1].ret =
         <<[shape |-> "Tuple",
            elems |-> <<[shape |-> "U8"], [shape |-> "Bool"], [shape |-> "U8"]>>]>>
    /\ call.iface.ok.functions[2].ret =
         <<[shape |-> "Tuple", elems |-> <<[shape |-> "U8"]>>]>>

\* ------------------------------------------- claims on failing futures
\* C26: when the foreign poll of a future raises an error, that poll rejects
\* the promise with the error (one call of reject, none of resolve),
\* unregisters the slot once and drops the Handle once, and returns
\* normally: nothing is thrown into the caller of the poll; afterwards the
\* future is not polled again.
C26_PollErrorRejectsOnce ==
    /\ lastCall.op = "nativeFuture" => lastCall.err = NoErr
    /\ \A f \in FutureIds :
        LET fut == futures[f]
            fs == foreign[f]
            ptr == boxes[fut.box].ptr
            rejected(s) ==
                /\ s.futures[f].state = "rejected"
                /\ s.futures[f].value = Failure(fs.final.msg)
                /\ s.futures[f].rejectCalls = 1
                /\ s.futures[f].resolveCalls = 0
                /\ fut.idx \notin DOMAIN s.callbacks
                /\ s.unregisterCalls[fut.idx] = 1
                /\ s.boxes[fut.box].dropped
                /\ s.destructorCalls[ptr] = 1
                /\ s.foreign[f].polls = fs.k + 1
        IN  fs.final.t = "error" =>
              /\ fs.polls <= fs.k + 1
              /\ fut.state # "pending" => rejected(Host)
              /\ (fut.state = "pending" /\ fs.pendingLeft = 0) =>
                    LET r == notifier_callback(Host, fut.idx)
                    IN  /\ r.err = NoErr
                        /\ rejected(r.s)

\* A future failed at its second poll, run by a wake that returned normally.
C26_Witness ==
    /\ lastCall = AsyncCall("wake", Return(Host, JsUndefined))
    /\ \E f \in FutureIds :
        /\ foreign[f].k = 1
        /\ foreign[f].polls = 2
        /\ futures[f].state = "rejected"
        /\ futures[f].value = Failure("oops!")

\* ------------------------------------------- claims on deferred polls
\* C27: in nativeStream, however the next-ready wakes, the deferred polls
\* they schedule and the done wake interleave, no deferred poll runs once
\* the done notifier has closed the stream and dropped the Handle: a
\* deferred poll never borrows a dropped Box and never enqueues into a
\* closed stream.
C27_NoPollAfterDone ==
    lastCall.op = "timer" =>
        lastCall.err \notin {"use after free", "TypeError: stream is closed"}

\* -------------------------------------- claims on futures driven to their end
\* C28: between host callbacks, the slot of a future has its callback
\* exactly when its Handle is live and exactly when its promise is
\* unsettled; a wake whose poll returns pending leaves the slot registered,
\* the Handle live and the promise unsettled.
C28_SlotHandlePromiseAgree ==
    \A f \in FutureIds :
        LET fut == futures[f]
            registered == fut.idx \in DOMAIN callbacks
        IN  /\ registered <=> Live(boxes[fut.box])
            /\ Live(boxes[fut.box]) <=> fut.state = "pending"
            /\ (registered /\ foreign[f].pendingLeft > 0) =>
                    LET r == notifier_callback(Host, fut.idx)
                    IN  /\ r.err = NoErr
                        /\ fut.idx \in DOMAIN r.s.callbacks
                        /\ r.s.callbacks[fut.idx] = callbacks[fut.idx]
                        /\ r.s.boxes[fut.box] = boxes[fut.box]
                        /\ r.s.futures[f] = fut
                        /\ r.s.destructorCalls = destructorCalls

\* A wake has just polled a future for the second time, and it is pending
\* still.
C28_Witness ==
    /\ lastCall.op = "wake"
    /\ \E f \in FutureIds :
        /\ foreign[f].k = 2
        /\ foreign[f].polls = 2
        /\ futures[f].state = "pending"
        /\ futures[f].idx \in DOMAIN callbacks
        /\ Live(boxes[futures[f].box])

\* C30: a future whose foreign poll has yielded its ready result, the foreign
\* side having woken the slot after each pending poll, is settled, its slot
\* unregistered and its Handle dropped, whatever the ready value is, null
\* included.  (The foreign side wakes the slot only after a pending poll, so
\* a future not settled by the poll that yields the result never is.)
C30_ReadyResultSettles ==
    \A f \in FutureIds :
        foreign[f].polls > foreign[f].k =>
            /\ futures[f].state # "pending"
            /\ futures[f].idx \notin DOMAIN callbacks
            /\ boxes[futures[f].box].dropped

\* ------------------------------------------------ claims on the Box frame
\* C29: a borrow, move or drop that fails on a Box that is not live leaves
\* its dropped and moved flags and its pointer as they were and does not
\* call the destructor; a successful borrow leaves the Box as it was; a
\* successful move returns the stored pointer and does not call the
\* destructor; and dropped and moved are never both true.
C29_BoxFrame ==
    /\ \A b \in DOMAIN boxes :
        /\ ~(boxes[b].dropped /\ boxes[b].moved)
        /\ LET bo == borrow(Host, b)
               mo == move(Host, b)
               dr == drop(Host, b)
           IN  /\ \A r \in {bo, mo, dr} :
                    r.err # NoErr =>
                        /\ ~Live(boxes[b])
                        /\ r.s.boxes = boxes
                        /\ r.s.destructorCalls = destructorCalls
               /\ bo.err = NoErr =>
                    /\ bo.s.boxes = boxes
                    /\ bo.s.destructorCalls = destructorCalls
               /\ mo.err = NoErr =>
                    /\ mo.ret = boxes[b].ptr
                    /\ mo.s.boxes = [boxes EXCEPT ![b].moved = TRUE]
                    /\ mo.s.destructorCalls = destructorCalls
    /\ (lastCall.op \in {"borrow", "move", "drop"} /\ lastCall.err # NoErr) =>
            boxes[lastCall.box] = lastCall.pre
    /\ (lastCall.op = "borrow" /\ lastCall.err = NoErr) =>
            boxes[lastCall.box] = lastCall.pre
    /\ (lastCall.op = "move" /\ lastCall.err = NoErr) =>
            /\ lastCall.ret = lastCall.pre.ptr
            /\ destructorCalls[lastCall.pre.ptr] = 0

\* A move has just failed on a dropped Box while another Box stands moved.
C29_Witness ==
    /\ lastCall.op = "move"
    /\ lastCall.err = "use after free"
    /\ boxes[lastCall.box].dropped
    /\ \E b \in DOMAIN boxes : boxes[b].moved

=============================================================================
